---- MODULE Spec2Model ----
(***************************************************************************)
(* kintone-functional-query: the query-language engine.                    *)
(*                                                                         *)
(* The recursive-descent parser (KintoneQueryParser), the serializer       *)
(* (ASTToQueryBuilder), escapeValue and the bidirectional helpers          *)
(* (queryConverter, transformQuery, extractQueryComponents) are modelled   *)
(* at character level: a text is a sequence of one-character strings and   *)
(* the cursor is the 0-based offset `pos` into it, as in the source.       *)
(***************************************************************************)
EXTENDS Integers, Sequences, FiniteSets, TLC

VARIABLES
    input,      \* KintoneQueryParser.input of the parser used by the last call
    pos,        \* KintoneQueryParser.pos of that parser
    op,         \* the last API call made ("new" before any call)
    query,      \* the text argument of the call
    built,      \* the programmatically built AST handed to astToQuery
    outcome,    \* what the call returned: an AST, null, or a thrown error
    warnings,   \* number of warnings written to the diagnostics sink
    conv,       \* the converter object returned by queryConverter
    derived,    \* what a converter method / wrapper returned
    regenerated, \* canonical text and its re-parse, for the round trips
    options,    \* QueryBuilder.options of the builder object
    call,       \* the last call made on the builder and what it did
    ncalls,     \* number of orderBy/orderByMany/limit/offset calls made on it
    allocs,     \* number of AST objects created so far for converters
    nparses,    \* number of parse/parseComplete calls made on the parser object
    loop        \* the parser loop being run one pass at a time, if any

vars == <<input, pos, op, query, built, outcome, warnings, conv, derived, regenerated,
          options, call, ncalls, allocs, nparses, loop>>

-----------------------------------------------------------------------------
(* Characters                                                              *)

Lower == {"a","b","c","d","e","f","g","h","i","j","k","l","m",
          "n","o","p","q","r","s","t","u","v","w","x","y","z"}
Upper == {"A","B","C","D","E","F","G","H","I","J","K","L","M",
          "N","O","P","Q","R","S","T","U","V","W","X","Y","Z"}
Digit == {"0","1","2","3","4","5","6","7","8","9"}

\* /\s/
IsSpace(c) == c \in {" ", "\t", "\n"}
\* the ASCII part of the field-name character class
IsFieldChar(c) == c \in Lower \cup Upper \cup Digit \cup {"_", "."}
\* /[A-Z_]/
IsFuncChar(c) == c \in Upper \cup {"_"}
\* /[0-9.]/
IsNumChar(c) == c \in Digit \cup {"."}
\* /\s|[()=!<>,]/
IsBoundary(c) == IsSpace(c) \/ c \in {"(", ")", "=", "!", "<", ">", ","}

DigitVal(c) == CASE c = "0" -> 0 [] c = "1" -> 1 [] c = "2" -> 2 [] c = "3" -> 3
                 [] c = "4" -> 4 [] c = "5" -> 5 [] c = "6" -> 6 [] c = "7" -> 7
                 [] c = "8" -> 8 [] c = "9" -> 9
DigitChar(d) == CASE d = 0 -> "0" [] d = 1 -> "1" [] d = 2 -> "2" [] d = 3 -> "3"
                  [] d = 4 -> "4" [] d = 5 -> "5" [] d = 6 -> "6" [] d = 7 -> "7"
                  [] d = 8 -> "8" [] d = 9 -> "9"

Min(a, b) == IF a < b THEN a ELSE b

\* String.prototype.slice(a, b) for 0 <= a: characters a .. b-1, clamped
Slice(s, a, b) == IF a >= Len(s) \/ b <= a THEN <<>> ELSE SubSeq(s, a + 1, Min(b, Len(s)))

\* String.prototype.startsWith at an offset
StartsWithAt(s, p, lit) == Slice(s, p, p + Len(lit)) = lit

\* String.prototype.trim()
RECURSIVE TrimLeft(_)
TrimLeft(s) == IF s # <<>> /\ IsSpace(s[1]) THEN TrimLeft(Tail(s)) ELSE s
RECURSIVE TrimRight(_)
TrimRight(s) == IF s # <<>> /\ IsSpace(s[Len(s)]) THEN TrimRight(SubSeq(s, 1, Len(s) - 1)) ELSE s
Trim(s) == TrimRight(TrimLeft(s))

\* String.prototype.toLowerCase(), on the letters the keywords use
LowerOf(c) == CASE c = "O" -> "o" [] c = "R" -> "r" [] c = "D" -> "d" [] c = "E" -> "e"
                [] c = "L" -> "l" [] c = "I" -> "i" [] c = "M" -> "m" [] c = "T" -> "t"
                [] c = "F" -> "f" [] c = "S" -> "s" [] OTHER -> c
ToLowerCase(s) == [i \in 1..Len(s) |-> LowerOf(s[i])]

\* String.prototype.replace(/pat/g, rep) for a literal pattern: leftmost,
\* non-overlapping matches, scanning left to right
RECURSIVE ReplaceAll(_, _, _)
ReplaceAll(s, pat, rep) ==
    IF s = <<>> THEN <<>>
    ELSE IF StartsWithAt(s, 0, pat)
         THEN rep \o ReplaceAll(Slice(s, Len(pat), Len(s)), pat, rep)
         ELSE <<s[1]>> \o ReplaceAll(Tail(s), pat, rep)

\* Array.prototype.join
RECURSIVE Join(_, _)
Join(parts, sep) ==
    IF parts = <<>> THEN <<>>
    ELSE IF Len(parts) = 1 THEN parts[1]
    ELSE parts[1] \o sep \o Join(Tail(parts), sep)

-----------------------------------------------------------------------------
(* Numbers: a JavaScript number with a short decimal expansion is          *)
(* (-1)^neg * m / 10^e, with e minimal; neg /\ m = 0 is the value -0.      *)

RECURSIVE Pow10(_)
Pow10(e) == IF e = 0 THEN 1 ELSE 10 * Pow10(e - 1)

RECURSIVE NormNum(_, _, _)
NormNum(neg, m, e) ==
    IF e > 0 /\ m % 10 = 0 THEN NormNum(neg, m \div 10, e - 1)
    ELSE [t |-> "number", neg |-> neg, m |-> m, e |-> e]

Num(k) == IF k < 0 THEN NormNum(TRUE, -k, 0) ELSE NormNum(FALSE, k, 0)
Dec(k, e) == IF k < 0 THEN NormNum(TRUE, -k, e) ELSE NormNum(FALSE, k, e)

Signed(n) == IF n.neg THEN -(n.m) ELSE n.m
\* n < k and n > k for an integer k
NumLess(n, k) == Signed(n) < k * Pow10(n.e)
NumGreater(n, k) == Signed(n) > k * Pow10(n.e)
\* Number.isInteger
IsInteger(n) == n.e = 0

-----------------------------------------------------------------------------
(* Keywords, operators and fixed pieces of text                            *)

KwOr == <<"o","r">>
KwAnd == <<"a","n","d">>
KwOrder == <<"o","r","d","e","r">>
KwBy == <<"b","y">>
KwLimit == <<"l","i","m","i","t">>
KwOffset == <<"o","f","f","s","e","t">>
KwAsc == <<"a","s","c">>
KwDesc == <<"d","e","s","c">>
KwNot == <<"n","o","t">>
OpIsNotEmpty == <<"i","s"," ","n","o","t"," ","e","m","p","t","y">>
OpIsEmpty == <<"i","s"," ","e","m","p","t","y">>
OpNotLike == <<"n","o","t"," ","l","i","k","e">>
OpNotIn == <<"n","o","t"," ","i","n">>
OpGe == <<">","=">>
OpLe == <<"<","=">>
OpNe == <<"!","=">>
OpEq == <<"=">>
OpGt == <<">">>
OpLt == <<"<">>
OpLike == <<"l","i","k","e">>
OpIn == <<"i","n">>
NullText == <<"n","u","l","l">>
OrderByText == <<"o","r","d","e","r"," ","b","y"," ">>
LimitText == <<"l","i","m","i","t"," ">>
OffsetText == <<"o","f","f","s","e","t"," ">>
RDot == <<"r",".">>

\* KintoneFunctionSchema: the function names of the grammar
KintoneFunctions ==
    {<<"T","O","D","A","Y">>,
     <<"N","O","W">>,
     <<"Y","E","S","T","E","R","D","A","Y">>,
     <<"T","O","M","O","R","R","O","W">>,
     <<"F","R","O","M","_","T","O","D","A","Y">>,
     <<"T","H","I","S","_","W","E","E","K">>,
     <<"L","A","S","T","_","W","E","E","K">>,
     <<"N","E","X","T","_","W","E","E","K">>,
     <<"T","H","I","S","_","M","O","N","T","H">>,
     <<"L","A","S","T","_","M","O","N","T","H">>,
     <<"N","E","X","T","_","M","O","N","T","H">>,
     <<"T","H","I","S","_","Y","E","A","R">>,
     <<"L","O","G","I","N","U","S","E","R">>,
     <<"P","R","I","M","A","R","Y","_","O","R","G","A","N","I","Z","A","T","I","O","N">>}

\* KintoneOperatorSchema
KintoneOperators == {OpEq, OpNe, OpGt, OpLt, OpGe, OpLe, OpIn, OpNotIn,
                     OpLike, OpNotLike, OpIsEmpty, OpIsNotEmpty}

-----------------------------------------------------------------------------
(* Cursor                                                                  *)

\* this.input[this.pos] || ''
peek(inp, p) == IF p < Len(inp) THEN inp[p + 1] ELSE ""

RECURSIVE skipWhitespace(_, _)
skipWhitespace(inp, p) ==
    IF p < Len(inp) /\ IsSpace(peek(inp, p)) THEN skipWhitespace(inp, p + 1) ELSE p

\* consume(expected): [hit, pos]
consume(inp, p, expected) ==
    IF StartsWithAt(inp, p, expected)
    THEN [hit |-> TRUE, pos |-> p + Len(expected)]
    ELSE [hit |-> FALSE, pos |-> p]

\* seeded fault: the word is taken whatever follows it
consumeKeywordAnywhere(inp, saved, c) ==
    IF c.hit THEN [hit |-> TRUE, pos |-> c.pos] ELSE [hit |-> FALSE, pos |-> saved]

\* the boundary test of consumeKeyword, c being the result of consume(keyword):
\* the offset is restored to `saved` when the word or its boundary is missing
consumeKeywordBoundary(inp, saved, c) ==
    IF c.hit /\ (c.pos >= Len(inp) \/ IsBoundary(peek(inp, c.pos)))
    THEN [hit |-> TRUE, pos |-> c.pos]
    ELSE [hit |-> FALSE, pos |-> saved]

\* consumeKeyword(keyword) once the leading whitespace is skipped
consumeKeywordAt(inp, saved, keyword) ==
    consumeKeywordBoundary(inp, saved, consume(inp, saved, keyword))

\* consumeKeyword(keyword)
consumeKeyword(inp, p, keyword) == consumeKeywordAt(inp, skipWhitespace(inp, p), keyword)

-----------------------------------------------------------------------------
(* Results of the parsing routines: ok = FALSE is a thrown Error           *)

Undefined == [t |-> "undefined"]
Ok(p, v) == [ok |-> TRUE, pos |-> p, val |-> v, err |-> "", w |-> 0]
Throw(p, msg) == [ok |-> FALSE, pos |-> p, val |-> Undefined, err |-> msg, w |-> 0]
OkW(p, v, w) == [ok |-> TRUE, pos |-> p, val |-> v, err |-> "", w |-> w]
ThrowW(p, msg, w) == [ok |-> FALSE, pos |-> p, val |-> Undefined, err |-> msg, w |-> w]

\* if (!this.consume(expected)) throw, c being the result of consume
expectConsumed(c) == IF c.hit THEN Ok(c.pos, Undefined) ELSE Throw(c.pos, "Expected literal")

\* expect(expected)
expect(inp, p, expected) == expectConsumed(consume(inp, p, expected))

\* a routine's last statements `this.expect(...); return v`
Closed(close, v) == IF close.ok THEN Ok(close.pos, v) ELSE close

Str(s) == [t |-> "string", s |-> s]
Func(name, args) == [t |-> "function", name |-> name, args |-> args]
Arr(items) == [t |-> "array", items |-> items]

-----------------------------------------------------------------------------
(* Numbers as text                                                         *)

RECURSIVE DigitPrefix(_)
DigitPrefix(s) == IF s # <<>> /\ s[1] \in Digit THEN <<s[1]>> \o DigitPrefix(Tail(s)) ELSE <<>>

RECURSIVE DigitsValue(_)
DigitsValue(ds) == IF ds = <<>> THEN 0
                   ELSE 10 * DigitsValue(SubSeq(ds, 1, Len(ds) - 1)) + DigitVal(ds[Len(ds)])

\* the number read from an integer part and a fraction part, NaN without digits
FloatOf(neg, ip, fp) ==
    IF ip = <<>> /\ fp = <<>>
    THEN [nan |-> TRUE, num |-> Num(0)]
    ELSE [nan |-> FALSE,
          num |-> NormNum(neg, DigitsValue(ip) * Pow10(Len(fp)) + DigitsValue(fp), Len(fp))]

\* the fraction digits that follow an integer part of length n
FractionOf(body, n) ==
    IF n < Len(body) /\ body[n + 1] = "." THEN DigitPrefix(Slice(body, n + 1, Len(body))) ELSE <<>>

\* parseFloat on the unsigned part of the text
FloatOfBody(neg, body, ip) == FloatOf(neg, ip, FractionOf(body, Len(ip)))

\* parseFloat on a string of the shape -?[0-9.]* : [nan, num]
parseFloat(numStr) ==
    IF numStr # <<>> /\ numStr[1] = "-"
    THEN FloatOfBody(TRUE, Tail(numStr), DigitPrefix(Tail(numStr)))
    ELSE FloatOfBody(FALSE, numStr, DigitPrefix(numStr))

RECURSIVE NatDigits(_)
NatDigits(k) == IF k < 10 THEN <<DigitChar(k)>> ELSE NatDigits(k \div 10) \o <<DigitChar(k % 10)>>

RECURSIVE PadLeft(_, _)
PadLeft(ds, n) == IF Len(ds) >= n THEN ds ELSE PadLeft(<<"0">> \o ds, n)

\* String(n) for a number: "0" for both zeros, else sign, integer part, fraction
NumberToString(n) ==
    IF n.m = 0 THEN <<"0">>
    ELSE (IF n.neg THEN <<"-">> ELSE <<>>)
         \o NatDigits(n.m \div Pow10(n.e))
         \o (IF n.e = 0 THEN <<>> ELSE <<".">> \o PadLeft(NatDigits(n.m % Pow10(n.e)), n.e))

-----------------------------------------------------------------------------
(* Scalars                                                                 *)

\* isNumber()
isNumber(inp, p) == peek(inp, p) = "-" \/ peek(inp, p) \in Digit

RECURSIVE SkipNumChars(_, _)
SkipNumChars(inp, p) ==
    IF p < Len(inp) /\ IsNumChar(peek(inp, p)) THEN SkipNumChars(inp, p + 1) ELSE p

\* the end of parseNumber: isNaN(num) throws, else num is returned
NumberRead(p, f) == IF f.nan THEN Throw(p, "Invalid number") ELSE Ok(p, f.num)

\* parseNumber() once the offset after the digits is known
parseNumberTo(inp, start, end) == NumberRead(end, parseFloat(Slice(inp, start, end)))

\* parseNumber()
parseNumber(inp, start) ==
    parseNumberTo(inp, start,
                  SkipNumChars(inp, IF peek(inp, start) = "-" THEN start + 1 ELSE start))

\* the scanning loop of parseString: a backslash skips two characters
RECURSIVE ScanString(_, _)
ScanString(inp, p) ==
    IF p < Len(inp) /\ peek(inp, p) # "\""
    THEN ScanString(inp, IF peek(inp, p) = "\\" THEN p + 2 ELSE p + 1)
    ELSE p

\* value.replace(/\\"/g, '"').replace(/\\\\/g, '\\')
Unescape(raw) == ReplaceAll(ReplaceAll(raw, <<"\\", "\"">>, <<"\"">>), <<"\\", "\\">>, <<"\\">>)

\* seeded fault: the closing quote is not expected
parseStringToUnclosed(inp, start, end) == Ok(end, Str(Unescape(Slice(inp, start, end))))

\* parseString() from the slice onwards: start and end delimit the raw value
parseStringTo(inp, start, end) ==
    Closed(expect(inp, end, <<"\"">>), Str(Unescape(Slice(inp, start, end))))

\* parseString() after the opening quote
parseStringFrom(inp, open) ==
    IF open.ok THEN parseStringTo(inp, open.pos, ScanString(inp, open.pos)) ELSE open

\* parseString()
parseString(inp, p) == parseStringFrom(inp, expect(inp, p, <<"\"">>))

\* seeded fault: the quotes are escaped before the backslashes
escapeValueQuotesFirst(value) ==
    ReplaceAll(ReplaceAll(value, <<"\"">>, <<"\\", "\"">>), <<"\\">>, <<"\\", "\\">>)

\* escapeValue(value)
escapeValue(value) == ReplaceAll(ReplaceAll(value, <<"\\">>, <<"\\", "\\">>), <<"\"">>, <<"\\", "\"">>)

RECURSIVE SkipFuncChars(_, _)
SkipFuncChars(inp, p) ==
    IF p < Len(inp) /\ IsFuncChar(peek(inp, p)) THEN SkipFuncChars(inp, p + 1) ELSE p

\* isFunction(): a lookahead; the offset it started from is restored
isFunction(inp, p) ==
    /\ peek(inp, p) \in Upper
    /\ peek(inp, skipWhitespace(inp, SkipFuncChars(inp, p))) = "("

-----------------------------------------------------------------------------
(* Values                                                                  *)

RECURSIVE parseSingleValue(_, _)
RECURSIVE parseItems(_, _, _)
RECURSIVE parseItemsNext(_, _, _)
RECURSIVE parseFunction(_, _)

\* the loop shared by parseArray and parseFunction:
\* while (peek() !== ')') { push(parseSingleValue()); ',' or ')' must follow }
parseItems(inp, p, acc) ==
    IF peek(inp, p) = ")" THEN Ok(p, acc)
    ELSE parseItemsNext(inp, acc, parseSingleValue(inp, p))

\* the rest of one iteration of that loop, v being the value just parsed
parseItemsNext(inp, acc, v) ==
    IF ~v.ok THEN v
    ELSE IF peek(inp, v.pos) = ","
         THEN parseItems(inp, skipWhitespace(inp, v.pos + 1), Append(acc, v.val))
    ELSE IF peek(inp, v.pos) # ")"
         THEN Throw(v.pos, "Expected ',' or ')'")
    ELSE Ok(v.pos, Append(acc, v.val))

\* the end of parseFunction: expect(')') and the FunctionCall object;
\* args is <<>> where the source stores undefined
parseFunctionClose(inp, name, items) ==
    IF items.ok THEN Closed(expect(inp, items.pos, <<")">>), Func(name, items.val)) ELSE items

\* parseFunction() after expect('(')
parseFunctionArgs(inp, name, open) ==
    IF open.ok THEN parseFunctionClose(inp, name, parseItems(inp, open.pos, <<>>)) ELSE open

\* parseFunctionName(): the capitals and underscores from start up to end
parseFunctionName(inp, start, end) == Slice(inp, start, end)

\* parseFunction() once the offset after the name is known
parseFunctionNamed(inp, p, end) ==
    parseFunctionArgs(inp, parseFunctionName(inp, p, end), expect(inp, end, <<"(">>))

\* parseFunction()
parseFunction(inp, p) == parseFunctionNamed(inp, p, SkipFuncChars(inp, p))

\* parseSingleValue() after skipWhitespace()
parseSingleValueAt(inp, p) ==
    IF peek(inp, p) = "\"" THEN parseString(inp, p)
    ELSE IF isFunction(inp, p) THEN parseFunction(inp, p)
    ELSE IF isNumber(inp, p) THEN parseNumber(inp, p)
    ELSE Throw(p, "Expected value")

\* parseSingleValue()
parseSingleValue(inp, p) == parseSingleValueAt(inp, skipWhitespace(inp, p))

\* the end of parseArray: expect(')') and the array
parseArrayClose(inp, items) ==
    IF items.ok THEN Closed(expect(inp, items.pos, <<")">>), Arr(items.val)) ELSE items

\* parseArray() after expect('(')
parseArrayFrom(inp, open) ==
    IF open.ok THEN parseArrayClose(inp, parseItems(inp, open.pos, <<>>)) ELSE open

\* parseArray()
parseArray(inp, p) == parseArrayFrom(inp, expect(inp, p, <<"(">>))

\* parseValue() after skipWhitespace()
parseValueAt(inp, p) ==
    IF peek(inp, p) = "(" THEN parseArray(inp, p)
    ELSE IF peek(inp, p) = "\"" THEN parseString(inp, p)
    ELSE IF isFunction(inp, p) THEN parseFunction(inp, p)
    ELSE IF isNumber(inp, p) THEN parseNumber(inp, p)
    ELSE Throw(p, "Expected value")

\* parseValue()
parseValue(inp, p) == parseValueAt(inp, skipWhitespace(inp, p))

-----------------------------------------------------------------------------
(* Field predicates                                                        *)

RECURSIVE SkipFieldChars(_, _)
SkipFieldChars(inp, p) ==
    IF p < Len(inp) /\ IsFieldChar(peek(inp, p)) THEN SkipFieldChars(inp, p + 1) ELSE p

\* the end of parseFieldName: start === this.pos throws, else the slice
parseFieldNameTo(inp, start, end) ==
    IF start = end THEN Throw(end, "Expected field name")
    ELSE Ok(end, Slice(inp, start, end))

\* parseFieldName() after skipWhitespace()
parseFieldNameAt(inp, start) == parseFieldNameTo(inp, start, SkipFieldChars(inp, start))

\* parseFieldName()
parseFieldName(inp, p) == parseFieldNameAt(inp, skipWhitespace(inp, p))

\* seeded fault: the one-character symbols and `in` are tried first
OperatorOrderShortFirst == <<OpEq, OpGt, OpLt, OpIn, OpGe, OpLe, OpNe, OpLike,
                             OpNotIn, OpNotLike, OpIsEmpty, OpIsNotEmpty>>

\* twoWordOps followed by singleOps, in the order parseOperator tries them
OperatorOrder == <<OpIsNotEmpty, OpIsEmpty, OpNotLike, OpNotIn,
                   OpGe, OpLe, OpNe, OpEq, OpGt, OpLt, OpLike, OpIn>>

\* symbol.match(/[a-z]/)
HasLetter(o) == \E i \in 1..Len(o) : o[i] \in Lower

RECURSIVE TryOperators(_, _, _)
RECURSIVE TryOperator(_, _, _)

\* the two for-loops of parseOperator over the operators still to try
TryOperators(inp, p, ops) ==
    IF ops = <<>> THEN Throw(p, "Expected operator")
    ELSE TryOperator(inp, ops, IF HasLetter(Head(ops))
                               THEN consumeKeyword(inp, p, Head(ops))
                               ELSE consume(inp, p, Head(ops)))

\* one iteration: return the operator when it was consumed, else go on
TryOperator(inp, ops, c) ==
    IF c.hit THEN Ok(c.pos, Head(ops)) ELSE TryOperators(inp, c.pos, Tail(ops))

\* parseOperator()
parseOperator(inp, p) == TryOperators(inp, skipWhitespace(inp, p), OperatorOrder)

\* a QueryExpression object; hasValueKey is ('value' in expr)
Pred(field, operator, value) ==
    [type |-> "query", field |-> field, operator |-> operator, value |-> value,
     hasValueKey |-> TRUE]

\* the decode step of QueryExpressionSchema: TRUE when it does not throw
ShapeOk(operator, value) ==
    IF operator \in {OpIn, OpNotIn} THEN value.t \in {"array", "function"}
    ELSE IF operator \in {OpIsEmpty, OpIsNotEmpty} THEN value.t \in {"undefined", "null"}
    ELSE IF operator \in {OpLike, OpNotLike} THEN value.t = "string"
    ELSE TRUE

\* seeded fault: a value that fails validation is wrapped into a list
validateQueryExpressionCoerced(expr) ==
    IF expr.operator \in KintoneOperators /\ ShapeOk(expr.operator, expr.value)
    THEN [expr |-> expr, warned |-> 0]
    ELSE [expr |-> [expr EXCEPT !.value = Arr(<<@>>)], warned |-> 1]

\* seeded fault: a failed validation is not reported
validateQueryExpressionSilent(expr) == [expr |-> expr, warned |-> 0]

\* validateQueryExpression(expr): the expression is returned either way;
\* warned counts the call of logValidationWarning
validateQueryExpression(expr) ==
    [expr |-> expr,
     warned |-> IF expr.operator \in KintoneOperators /\ ShapeOk(expr.operator, expr.value)
                THEN 0 ELSE 1]

\* return this.validateQueryExpression({field, operator, value})
parseFieldConditionReturn(p, checked, w) == OkW(p, checked.expr, w + checked.warned)

\* parseFieldCondition() once the value is read (Undefined: no value is read)
parseFieldConditionValue(field, operator, v, w) ==
    IF v.ok
    THEN parseFieldConditionReturn(v.pos, validateQueryExpression(Pred(field, operator, v.val)), w)
    ELSE ThrowW(v.pos, v.err, w)

\* parseFieldCondition() after parseOperator()
parseFieldConditionOperator(inp, field, o, w) ==
    IF o.ok
    THEN parseFieldConditionValue(field, o.val,
                                  IF o.val # OpIsEmpty /\ o.val # OpIsNotEmpty
                                  THEN parseValue(inp, o.pos)
                                  ELSE Ok(o.pos, Undefined),
                                  w)
    ELSE ThrowW(o.pos, o.err, w)

\* parseFieldCondition() after parseFieldName()
parseFieldConditionField(inp, f, w) ==
    IF f.ok THEN parseFieldConditionOperator(inp, f.val, parseOperator(inp, f.pos), w)
    ELSE ThrowW(f.pos, f.err, w)

\* parseFieldCondition()
parseFieldCondition(inp, p, w) == parseFieldConditionField(inp, parseFieldName(inp, p), w)

-----------------------------------------------------------------------------
(* Logical expressions                                                     *)

Logical(type, left, right) == [type |-> type, left |-> left, right |-> right]
Not(expr) == [type |-> "not", expression |-> expr]

\* left = {type, left, right}: the loop goes on from the right operand's end
Combined(type, left, right) ==
    IF right.ok THEN OkW(right.pos, Logical(type, left.val, right.val), right.w) ELSE right

\* this.expect(')'); return expr
parsePrimaryClosed(close, inner) ==
    IF close.ok THEN OkW(close.pos, inner.val, inner.w)
    ELSE ThrowW(close.pos, close.err, inner.w)

\* the parenthesised branch of parsePrimary after the inner parseOr()
parsePrimaryInner(inp, inner) ==
    IF inner.ok THEN parsePrimaryClosed(expect(inp, inner.pos, <<")">>), inner) ELSE inner

RECURSIVE parseOr(_, _, _)
RECURSIVE parseAnd(_, _, _)
RECURSIVE parsePrimary(_, _, _)
RECURSIVE OrLoop(_, _)
RECURSIVE AndLoop(_, _)

\* parsePrimary() after skipWhitespace()
parsePrimaryAt(inp, p, w) ==
    IF peek(inp, p) = "("
    THEN parsePrimaryInner(inp, parseOr(inp, consume(inp, p, <<"(">>).pos, w))
    ELSE parseFieldCondition(inp, p, w)

\* parsePrimary()
parsePrimary(inp, p, w) == parsePrimaryAt(inp, skipWhitespace(inp, p), w)

\* seeded fault: the right operand of `and` is the rest of the chain, which
\* nests the chain to the right
AndLoopKeywordRight(inp, left, c) ==
    IF c.hit THEN Combined("and", left, parseAnd(inp, c.pos, left.w))
    ELSE OkW(c.pos, left.val, left.w)

\* one test of `while (this.consumeKeyword('and'))` and the loop body
AndLoopKeyword(inp, left, c) ==
    IF c.hit THEN AndLoop(inp, Combined("and", left, parsePrimary(inp, c.pos, left.w)))
    ELSE OkW(c.pos, left.val, left.w)

\* while (consumeKeyword('and')) { right = parsePrimary(); left = {and, left, right} }
AndLoop(inp, left) ==
    IF left.ok THEN AndLoopKeyword(inp, left, consumeKeyword(inp, left.pos, KwAnd)) ELSE left

\* parseAnd()
parseAnd(inp, p, w) == AndLoop(inp, parsePrimary(inp, p, w))

\* seeded fault: the right operand of `or` is read by parsePrimary(), which
\* gives `or` the precedence of `and`
OrLoopKeywordPrimary(inp, left, c) ==
    IF c.hit THEN OrLoop(inp, Combined("or", left, parsePrimary(inp, c.pos, left.w)))
    ELSE OkW(c.pos, left.val, left.w)

\* one test of `while (this.consumeKeyword('or'))` and the loop body
OrLoopKeyword(inp, left, c) ==
    IF c.hit THEN OrLoop(inp, Combined("or", left, parseAnd(inp, c.pos, left.w)))
    ELSE OkW(c.pos, left.val, left.w)

\* while (consumeKeyword('or')) { right = parseAnd(); left = {or, left, right} }
OrLoop(inp, left) ==
    IF left.ok THEN OrLoopKeyword(inp, left, consumeKeyword(inp, left.pos, KwOr)) ELSE left

\* parseOr()
parseOr(inp, p, w) == OrLoop(inp, parseAnd(inp, p, w))

\* parseWhere()
parseWhere(inp, p, w) == parseOr(inp, p, w)

-----------------------------------------------------------------------------
(* Clauses of the complete query                                           *)

\* the body of hasWhereClause after skipWhitespace(): the lower-cased text at
\* the offset is compared with 'order', 'limit', 'offset' (no word boundary
\* is required); `saved` is the offset restored before returning
hasWhereClauseAt(inp, saved, p) ==
    IF \E token \in {KwOrder, KwLimit, KwOffset} :
           Slice(ToLowerCase(inp), p, p + Len(token)) = token
    THEN FALSE
    ELSE saved < Len(inp)

\* hasWhereClause()
hasWhereClause(inp, p) == hasWhereClauseAt(inp, p, skipWhitespace(inp, p))

\* if (!this.consumeKeyword(keyword)) throw
expectKeywordConsumed(c) ==
    IF c.hit THEN Ok(c.pos, Undefined) ELSE Throw(c.pos, "Expected keyword")

\* expectKeyword(keyword)
expectKeyword(inp, p, keyword) == expectKeywordConsumed(consumeKeyword(inp, p, keyword))

OrderByClause(field, direction) == [field |-> field, direction |-> direction]

\* if (consumeKeyword('desc')) direction = 'desc'
\* else if (consumeKeyword('asc')) direction = 'asc'
SortDirection(inp, field, d) ==
    IF d.hit THEN Ok(d.pos, OrderByClause(field, "desc"))
    ELSE Ok(consumeKeyword(inp, d.pos, KwAsc).pos, OrderByClause(field, "asc"))

\* one clause after parseFieldName(): skipWhitespace() and the direction
SortField(inp, f) ==
    IF f.ok THEN SortDirection(inp, f.val, consumeKeyword(inp, skipWhitespace(inp, f.pos), KwDesc))
    ELSE f

\* one clause of parseOrderBy: a field name and an optional direction
SortClause(inp, p) == SortField(inp, parseFieldName(inp, p))

RECURSIVE OrderByLoop(_, _, _)
RECURSIVE OrderByLoopComma(_, _, _)

\* clauses.push({field, direction}); skipWhitespace(); the test of the loop
OrderByLoop(inp, clauses, next) ==
    IF next.ok
    THEN OrderByLoopComma(inp, Append(clauses, next.val),
                          consume(inp, skipWhitespace(inp, next.pos), <<",">>))
    ELSE next

\* while (consume(',')) { skipWhitespace(); clause; skipWhitespace() }
OrderByLoopComma(inp, clauses, c) ==
    IF c.hit THEN OrderByLoop(inp, clauses, SortClause(inp, skipWhitespace(inp, c.pos)))
    ELSE Ok(c.pos, Arr(clauses))

\* parseOrderBy()
parseOrderBy(inp, p) == OrderByLoop(inp, <<>>, SortClause(inp, p))

\* the kintone API limits written in parseLimit, parseOffset, setLimit, setOffset
LimitMax == 500
OffsetMax == 10000

\* limit < 1 || limit > 500 || !Number.isInteger(limit)
LimitOutOfRange(n) == NumLess(n, 1) \/ NumGreater(n, LimitMax) \/ ~IsInteger(n)
\* seeded fault: the lower bound of the limit check copied to the offset check
OffsetOutOfRangeFromOne(n) == NumLess(n, 1) \/ NumGreater(n, OffsetMax) \/ ~IsInteger(n)

\* offset < 0 || offset > 10000 || !Number.isInteger(offset)
OffsetOutOfRange(n) == NumLess(n, 0) \/ NumGreater(n, OffsetMax) \/ ~IsInteger(n)

\* the range check of parseLimit on the number parsed
parseLimitCheck(n) ==
    IF ~n.ok THEN n
    ELSE IF LimitOutOfRange(n.val)
         THEN Throw(n.pos, "LIMIT must be an integer between 1 and 500")
    ELSE n

\* parseLimit() after skipWhitespace()
parseLimitAt(inp, p) ==
    IF isNumber(inp, p) THEN parseLimitCheck(parseNumber(inp, p))
    ELSE Throw(p, "Expected number for LIMIT")

\* parseLimit()
parseLimit(inp, p) == parseLimitAt(inp, skipWhitespace(inp, p))

\* the range check of parseOffset on the number parsed
parseOffsetCheck(n) ==
    IF ~n.ok THEN n
    ELSE IF OffsetOutOfRange(n.val)
         THEN Throw(n.pos, "OFFSET must be an integer between 0 and 10000")
    ELSE n

\* parseOffset() after skipWhitespace()
parseOffsetAt(inp, p) ==
    IF isNumber(inp, p) THEN parseOffsetCheck(parseNumber(inp, p))
    ELSE Throw(p, "Expected number for OFFSET")

\* parseOffset()
parseOffset(inp, p) == parseOffsetAt(inp, skipWhitespace(inp, p))

-----------------------------------------------------------------------------
(* The two entry points.  A call returns                                   *)
(*   [kind, ast, err, input, pos, w]                                       *)
(* kind "ast": the AST returned; "null": null returned; "error": an Error  *)
(* thrown (no AST).  input/pos are the parser's fields after the call and  *)
(* w the number of validation warnings it logged.                          *)

Returned(kind, ast, err, inp, p, w) ==
    [kind |-> kind, ast |-> ast, err |-> err, input |-> inp, pos |-> p, w |-> w]

\* an Error thrown by the routine whose result is r leaves the entry point
Failed(inp, r, w) == Returned("error", Undefined, r.err, inp, r.pos, w)

\* seeded fault: the AST is returned without the check for leftover input
checkAllConsumedAtUnchecked(inp, p, ast, w) == Returned("ast", ast, "", inp, p, w)

\* if (this.pos < this.input.length) throw ...; return ast
checkAllConsumedAt(inp, p, ast, w) ==
    IF p < Len(inp)
    THEN Returned("error", Undefined, "Unexpected characters", inp, p, w)
    ELSE Returned("ast", ast, "", inp, p, w)

\* the final check of parse and parseComplete, from skipWhitespace() on
checkAllConsumed(inp, p, ast, w) == checkAllConsumedAt(inp, skipWhitespace(inp, p), ast, w)

\* parse() after parseOr()
parseExpr(inp, expr) ==
    IF expr.ok THEN checkAllConsumed(inp, expr.pos, expr.val, expr.w)
    ELSE Failed(inp, expr, expr.w)

\* the fields of a KintoneQueryParser object, and their initial values
Parser(inp, p) == [input |-> inp, pos |-> p]
NewParser == Parser(<<>>, 0)

\* seeded fault: the entry points keep the offset the last call left
enterKeepingOffset(self, q) == Parser(Trim(q), self.pos)

\* this.input = query.trim(); this.pos = 0
enter(self, q) == Parser(Trim(q), 0)

\* parse() after this.input = query.trim(); this.pos = 0
parseInput(parser) ==
    IF parser.input = <<>> THEN Returned("null", Undefined, "", parser.input, parser.pos, 0)
    ELSE parseExpr(parser.input, parseOr(parser.input, parser.pos, 0))

\* parser.parse(query) on a parser object
parseOn(self, q) == parseInput(enter(self, q))

\* parse(query) on a new parser object
parse(q) == parseOn(NewParser, q)

\* a CompleteQueryAST object; Undefined stands for a key that is not set
CompleteQueryAST(where, orderBy, limit, offset) ==
    [where |-> where, orderBy |-> orderBy, limit |-> limit, offset |-> offset]

\* const ast: CompleteQueryAST = {}
EmptyAST == CompleteQueryAST(Undefined, Undefined, Undefined, Undefined)

\* seeded fault: a `limit` clause written after the offset is read as well
parseCompleteLateLimitSet(inp, ast, w, limit) ==
    IF limit.ok THEN checkAllConsumed(inp, limit.pos, [ast EXCEPT !.limit = limit.val], w)
    ELSE Failed(inp, limit, w)
parseCompleteLateLimit(inp, ast, w, kw) ==
    IF kw.hit THEN parseCompleteLateLimitSet(inp, ast, w, parseLimit(inp, kw.pos))
    ELSE checkAllConsumed(inp, kw.pos, ast, w)
parseCompleteEndLimitAfter(inp, ast, w, offset) ==
    IF offset.ok
    THEN parseCompleteLateLimit(inp, [ast EXCEPT !.offset = offset.val], w,
                                consumeKeyword(inp, offset.pos, KwLimit))
    ELSE Failed(inp, offset, w)

\* parseComplete(): ast.offset is set and the final check made
parseCompleteEnd(inp, ast, w, offset) ==
    IF offset.ok THEN checkAllConsumed(inp, offset.pos, [ast EXCEPT !.offset = offset.val], w)
    ELSE Failed(inp, offset, w)

\* if (this.consumeKeyword('offset')) ast.offset = this.parseOffset()
parseCompleteOffset(inp, ast, w, kw) ==
    parseCompleteEnd(inp, ast, w,
                     IF kw.hit THEN parseOffset(inp, kw.pos) ELSE Ok(kw.pos, Undefined))

\* parseComplete(): ast.limit is set, the OFFSET clause follows
parseCompleteLimitSet(inp, ast, w, limit) ==
    IF limit.ok
    THEN parseCompleteOffset(inp, [ast EXCEPT !.limit = limit.val], w,
                             consumeKeyword(inp, limit.pos, KwOffset))
    ELSE Failed(inp, limit, w)

\* if (this.consumeKeyword('limit')) ast.limit = this.parseLimit()
parseCompleteLimit(inp, ast, w, kw) ==
    parseCompleteLimitSet(inp, ast, w,
                          IF kw.hit THEN parseLimit(inp, kw.pos) ELSE Ok(kw.pos, Undefined))

\* parseComplete(): ast.orderBy is set, the LIMIT clause follows
parseCompleteOrderBySet(inp, ast, w, orderBy) ==
    IF orderBy.ok
    THEN parseCompleteLimit(inp, [ast EXCEPT !.orderBy = orderBy.val], w,
                            consumeKeyword(inp, orderBy.pos, KwLimit))
    ELSE Failed(inp, orderBy, w)

\* this.expectKeyword('by'); ast.orderBy = this.parseOrderBy()
parseCompleteBy(inp, by) ==
    IF by.ok THEN parseOrderBy(inp, by.pos) ELSE by

\* if (this.consumeKeyword('order')) { expectKeyword('by'); parseOrderBy() }
parseCompleteOrderBy(inp, ast, w, kw) ==
    parseCompleteOrderBySet(inp, ast, w,
        IF kw.hit THEN parseCompleteBy(inp, expectKeyword(inp, kw.pos, KwBy))
        ELSE Ok(kw.pos, Undefined))

\* parseComplete(): ast.where is set, the ORDER BY clause follows
parseCompleteWhereSet(inp, where) ==
    IF where.ok
    THEN parseCompleteOrderBy(inp, [EmptyAST EXCEPT !.where = where.val], where.w,
                              consumeKeyword(inp, where.pos, KwOrder))
    ELSE Failed(inp, where, where.w)

\* parseComplete() after this.input = query.trim(); this.pos = 0
parseCompleteInput(parser) ==
    IF parser.input = <<>> THEN Returned("null", Undefined, "", parser.input, parser.pos, 0)
    ELSE parseCompleteWhereSet(parser.input,
                               IF hasWhereClause(parser.input, parser.pos)
                               THEN parseWhere(parser.input, parser.pos, 0)
                               ELSE OkW(parser.pos, Undefined, 0))

\* parser.parseComplete(query) on a parser object
parseCompleteOn(self, q) == parseCompleteInput(enter(self, q))

\* parseComplete(query) on a new parser object
parseComplete(q) == parseCompleteOn(NewParser, q)

-----------------------------------------------------------------------------
(* The loops of the parser, one pass at a time.  A pass evaluates the test *)
(* of the loop and, if it holds, the body; it leaves the loop running at a *)
(* new offset, leaves it ("done"), or raises an Error ("error").           *)

Pass(status, p) == [status |-> status, pos |-> p]

\* the body of a loop was a call of a parsing routine whose result is r
AfterCall(r) == IF r.ok THEN Pass("running", r.pos) ELSE Pass("error", r.pos)

\* while (this.consumeKeyword('or')) { const right = this.parseAnd(); ... }
orPassKeyword(inp, c) ==
    IF c.hit THEN AfterCall(parseAnd(inp, c.pos, 0)) ELSE Pass("done", c.pos)
orPass(inp, p) == orPassKeyword(inp, consumeKeyword(inp, p, KwOr))

\* while (this.consumeKeyword('and')) { const right = this.parsePrimary(); ... }
andPassKeyword(inp, c) ==
    IF c.hit THEN AfterCall(parsePrimary(inp, c.pos, 0)) ELSE Pass("done", c.pos)
andPass(inp, p) == andPassKeyword(inp, consumeKeyword(inp, p, KwAnd))

\* while (this.consume(',')) { skipWhitespace(); field and direction; skipWhitespace() }
orderByPassClause(inp, r) ==
    IF r.ok THEN Pass("running", skipWhitespace(inp, r.pos)) ELSE Pass("error", r.pos)
orderByPassComma(inp, c) ==
    IF c.hit THEN orderByPassClause(inp, SortClause(inp, skipWhitespace(inp, c.pos)))
    ELSE Pass("done", c.pos)
orderByPass(inp, p) == orderByPassComma(inp, consume(inp, p, <<",">>))

\* seeded fault: a value that does not parse is skipped over without an Error
itemsPassValueLenient(inp, v) ==
    IF ~v.ok THEN Pass("running", v.pos)
    ELSE IF peek(inp, v.pos) = "," THEN Pass("running", skipWhitespace(inp, v.pos + 1))
    ELSE IF peek(inp, v.pos) # ")" THEN Pass("error", v.pos)
    ELSE Pass("running", v.pos)

\* the body of the loop of parseArray and of parseFunction after
\* parseSingleValue(): a comma is consumed, anything but `)` throws
itemsPassValue(inp, v) ==
    IF ~v.ok THEN Pass("error", v.pos)
    ELSE IF peek(inp, v.pos) = "," THEN Pass("running", skipWhitespace(inp, v.pos + 1))
    ELSE IF peek(inp, v.pos) # ")" THEN Pass("error", v.pos)
    ELSE Pass("running", v.pos)

\* while (this.peek() !== ')') { values.push(this.parseSingleValue()); ... }
itemsPass(inp, p) ==
    IF peek(inp, p) = ")" THEN Pass("done", p)
    ELSE itemsPassValue(inp, parseSingleValue(inp, p))

\* while (pos < input.length && peek() !== '"') { pos += (peek() === '\\') ? 2 : 1 }
stringPass(inp, p) ==
    IF p < Len(inp) /\ peek(inp, p) # "\""
    THEN Pass("running", IF peek(inp, p) = "\\" THEN p + 2 ELSE p + 1)
    ELSE Pass("done", p)

\* while (pos < input.length && /[0-9.]/.test(peek())) { pos++ }
numberPass(inp, p) ==
    IF p < Len(inp) /\ IsNumChar(peek(inp, p)) THEN Pass("running", p + 1) ELSE Pass("done", p)

\* while (pos < input.length && /\s/.test(peek())) { pos++ }
whitespacePass(inp, p) ==
    IF p < Len(inp) /\ IsSpace(peek(inp, p)) THEN Pass("running", p + 1) ELSE Pass("done", p)

\* this.pos = saved, the last statement of the lookahead helpers before they
\* return (scanned is the offset their scan had reached)
restoreOffset(saved, scanned) == saved

\* the offset isFunction() leaves behind
isFunctionLeaves(inp, p) ==
    IF peek(inp, p) \notin Upper THEN p
    ELSE restoreOffset(p, skipWhitespace(inp, SkipFuncChars(inp, p)))

\* the offset hasWhereClause() leaves behind
hasWhereClauseLeaves(inp, p) == restoreOffset(p, skipWhitespace(inp, p))

-----------------------------------------------------------------------------
(* Serializer: ASTToQueryBuilder                                           *)

Quoted(s) == <<"\"">> \o s \o <<"\"">>

\* /^[A-Z_]+$/.test(arg)
IsConstantName(s) == s # <<>> /\ \A i \in 1..Len(s) : IsFuncChar(s[i])

\* one argument of a FunctionCall: a string of capitals is emitted bare, any
\* other string between quotes as it is, a number by String()
formatArg(arg) ==
    IF arg.t = "string"
    THEN IF IsConstantName(arg.s) THEN arg.s ELSE Quoted(arg.s)
    ELSE NumberToString(arg)

\* the FunctionCall branch of formatValue and of expressionToString
formatFunction(f) ==
    IF Len(f.args) > 0
    THEN f.name \o <<"(">> \o Join([i \in 1..Len(f.args) |-> formatArg(f.args[i])], <<",", " ">>) \o <<")">>
    ELSE f.name \o <<"(", ")">>

\* formatValue(value)
RECURSIVE formatValue(_)
formatValue(value) ==
    IF value.t \in {"undefined", "null"} THEN NullText
    ELSE IF value.t = "string" THEN Quoted(escapeValue(value.s))
    ELSE IF value.t = "array"
         THEN <<"(">> \o Join([i \in 1..Len(value.items) |-> formatValue(value.items[i])], <<",", " ">>) \o <<")">>
    ELSE IF value.t = "function" THEN formatFunction(value)
    ELSE NumberToString(value)

\* expr.field.startsWith('r.') ? expr.field.substring(2) : expr.field
fieldText(field) == IF StartsWithAt(field, 0, RDot) THEN Slice(field, 2, Len(field)) ELSE field

\* seeded fault: and/or nodes are written without parentheses
RECURSIVE expressionToStringBare(_)
expressionToStringBare(expr) ==
    IF expr.type = "query"
    THEN IF ~expr.hasValueKey THEN <<>>
         ELSE IF expr.operator \in {OpIsEmpty, OpIsNotEmpty}
              THEN fieldText(expr.field) \o <<" ">> \o expr.operator
         ELSE fieldText(expr.field) \o <<" ">> \o expr.operator \o <<" ">> \o formatValue(expr.value)
    ELSE IF expr.type = "and"
         THEN expressionToStringBare(expr.left) \o <<" ">> \o KwAnd \o <<" ">>
              \o expressionToStringBare(expr.right)
    ELSE IF expr.type = "or"
         THEN expressionToStringBare(expr.left) \o <<" ">> \o KwOr \o <<" ">>
              \o expressionToStringBare(expr.right)
    ELSE IF expr.type = "not"
         THEN KwNot \o <<" ">> \o expressionToStringBare(expr.expression)
    ELSE IF expr.type = "function" THEN formatFunction(expr)
    ELSE <<>>

\* expressionToString(expr)
RECURSIVE expressionToString(_)
expressionToString(expr) ==
    IF expr.type = "query"
    THEN IF ~expr.hasValueKey THEN <<>>
         ELSE IF expr.operator \in {OpIsEmpty, OpIsNotEmpty}
              THEN fieldText(expr.field) \o <<" ">> \o expr.operator
         ELSE fieldText(expr.field) \o <<" ">> \o expr.operator \o <<" ">> \o formatValue(expr.value)
    ELSE IF expr.type = "and"
         THEN <<"(">> \o expressionToString(expr.left) \o <<" ">> \o KwAnd \o <<" ">>
              \o expressionToString(expr.right) \o <<")">>
    ELSE IF expr.type = "or"
         THEN <<"(">> \o expressionToString(expr.left) \o <<" ">> \o KwOr \o <<" ">>
              \o expressionToString(expr.right) \o <<")">>
    ELSE IF expr.type = "not"
         THEN KwNot \o <<" ">> \o expressionToString(expr.expression)
    ELSE IF expr.type = "function" THEN formatFunction(expr)
    ELSE <<>>

\* `${clause.field} ${clause.direction}`
clauseText(c) == c.field \o <<" ">> \o (IF c.direction = "desc" THEN KwDesc ELSE KwAsc)

\* seeded fault: an empty orderBy list is emitted as a clause
generateEmptyOrderBy(ast) ==
    LET whereClause == IF ast.where = Undefined THEN <<>> ELSE expressionToString(ast.where)
        wherePart == IF whereClause # <<>> THEN <<whereClause>> ELSE <<>>
        orderPart == IF ast.orderBy # Undefined
                     THEN << OrderByText \o Join([i \in 1..Len(ast.orderBy.items) |->
                                                    clauseText(ast.orderBy.items[i])], <<",", " ">>) >>
                     ELSE <<>>
        limitPart == IF ast.limit # Undefined THEN << LimitText \o NumberToString(ast.limit) >> ELSE <<>>
        offsetPart == IF ast.offset # Undefined THEN << OffsetText \o NumberToString(ast.offset) >> ELSE <<>>
    IN Join(wherePart \o orderPart \o limitPart \o offsetPart, <<" ">>)

\* generate(ast)
generate(ast) ==
    LET whereClause == IF ast.where = Undefined THEN <<>> ELSE expressionToString(ast.where)
        wherePart == IF whereClause # <<>> THEN <<whereClause>> ELSE <<>>
        orderPart == IF ast.orderBy # Undefined /\ Len(ast.orderBy.items) > 0
                     THEN << OrderByText \o Join([i \in 1..Len(ast.orderBy.items) |->
                                                    clauseText(ast.orderBy.items[i])], <<",", " ">>) >>
                     ELSE <<>>
        limitPart == IF ast.limit # Undefined THEN << LimitText \o NumberToString(ast.limit) >> ELSE <<>>
        offsetPart == IF ast.offset # Undefined THEN << OffsetText \o NumberToString(ast.offset) >> ELSE <<>>
    IN Join(wherePart \o orderPart \o limitPart \o offsetPart, <<" ">>)

\* astToQuery(ast)
astToQuery(ast) == generate(ast)

-----------------------------------------------------------------------------
(* JSON.parse(JSON.stringify(ast)): a key whose value is undefined is      *)
(* dropped and -0 becomes 0                                                *)

jsonNumber(n) == IF n.m = 0 THEN Num(0) ELSE n

RECURSIVE jsonValue(_)
jsonValue(v) ==
    IF v.t = "number" THEN jsonNumber(v)
    ELSE IF v.t = "array" THEN Arr([i \in 1..Len(v.items) |-> jsonValue(v.items[i])])
    ELSE IF v.t = "function" THEN Func(v.name, [i \in 1..Len(v.args) |-> jsonValue(v.args[i])])
    ELSE v

RECURSIVE jsonExpr(_)
jsonExpr(e) ==
    IF e.type = "query"
    THEN [e EXCEPT !.value = jsonValue(e.value),
                   !.hasValueKey = e.hasValueKey /\ e.value # Undefined]
    ELSE IF e.type = "not" THEN Not(jsonExpr(e.expression))
    ELSE Logical(e.type, jsonExpr(e.left), jsonExpr(e.right))

jsonClone(ast) ==
    CompleteQueryAST(IF ast.where = Undefined THEN Undefined ELSE jsonExpr(ast.where),
                     ast.orderBy,
                     IF ast.limit = Undefined THEN Undefined ELSE jsonNumber(ast.limit),
                     IF ast.offset = Undefined THEN Undefined ELSE jsonNumber(ast.offset))

-----------------------------------------------------------------------------
(* Bidirectional helpers: queryConverter and its methods, transformQuery,  *)
(* extractQueryComponents                                                  *)

JsNull == [t |-> "null"]
Threw == [t |-> "error"]

\* the converter object built from the parser's result; null when the parser
\* returned null or threw
converterOf(q, r) ==
    IF r.kind = "ast"
    THEN [t |-> "converter", ast |-> r.ast, originalQuery |-> q]
    ELSE JsNull

\* queryConverter(query)
queryConverter(q) == converterOf(q, parseComplete(q))

\* converter.toQuery()
toQuery(c) == astToQuery(c.ast)

\* converter.modify(modifier): the modifier works on a JSON copy of the AST
modify(c, modifier(_)) == queryConverter(astToQuery(modifier(jsonClone(c.ast))))

\* converter.setOrderBy(orderBy)
setOrderBy(c, orderBy) ==
    LET modifier(ast) == [ast EXCEPT !.orderBy = orderBy]
    IN modify(c, modifier)

\* converter.setLimit(limit)
setLimit(c, limit) ==
    LET modifier(ast) == [ast EXCEPT !.limit = limit]
    IN IF LimitOutOfRange(limit) THEN Threw ELSE modify(c, modifier)

\* converter.setOffset(offset)
setOffset(c, offset) ==
    LET modifier(ast) == [ast EXCEPT !.offset = offset]
    IN IF OffsetOutOfRange(offset) THEN Threw ELSE modify(c, modifier)

\* converter.setWhere(newWhere)
setWhere(c, newWhere) ==
    LET modifier(ast) == [ast EXCEPT !.where = newWhere]
    IN modify(c, modifier)

\* a modifier callback: one assignment to a key of the AST object it receives
\* ("where.field" assigns the field of the root predicate, a nested node)
applyEdit(edit, ast) ==
    IF edit.key = "where" THEN [ast EXCEPT !.where = edit.value]
    ELSE IF edit.key = "orderBy" THEN [ast EXCEPT !.orderBy = edit.value]
    ELSE IF edit.key = "limit" THEN [ast EXCEPT !.limit = edit.value]
    ELSE IF edit.key = "offset" THEN [ast EXCEPT !.offset = edit.value]
    ELSE IF ast.where # Undefined /\ ast.where.type = "query"
         THEN [ast EXCEPT !.where.field = edit.value.s]
         ELSE ast

\* converter.modify(modifier) with such a callback: the converter returned
modifyEdit(c, edit) ==
    LET modifier(ast) == applyEdit(edit, ast)
    IN modify(c, modifier)

\* the two AST objects of one modify() call: this.ast and
\* newAst = JSON.parse(JSON.stringify(this.ast))
modifyObjects(c) == [this |-> c.ast, newAst |-> jsonClone(c.ast)]

\* seeded fault: the callback is handed this.ast itself, not the copy
modifierCalledOnThis(objects, edit) ==
    [this |-> applyEdit(edit, objects.this), newAst |-> applyEdit(edit, objects.this)]

\* modifier(newAst): the callback mutates the object it is handed
modifierCalled(objects, edit) == [objects EXCEPT !.newAst = applyEdit(edit, @)]

\* the receiver of converter.modify(modifier) once the call has returned
modifyReceiver(c, edit) == [c EXCEPT !.ast = modifierCalled(modifyObjects(c), edit).this]

\* the receiver of setLimit / setOffset, which throw before modify() on a bad argument
setLimitReceiver(c, limit) ==
    IF LimitOutOfRange(limit) THEN c ELSE modifyReceiver(c, [key |-> "limit", value |-> limit])
setOffsetReceiver(c, offset) ==
    IF OffsetOutOfRange(offset) THEN c ELSE modifyReceiver(c, [key |-> "offset", value |-> offset])

\* a transformer callback that assigns ast.limit and/or ast.offset
\* (Undefined: the callback leaves that key alone)
applyTransformer(tr, ast) ==
    [ast EXCEPT !.limit = IF tr.limit = Undefined THEN @ ELSE tr.limit,
                !.offset = IF tr.offset = Undefined THEN @ ELSE tr.offset]

\* text || null: the empty string is falsy
textOrNull(text) == IF text = <<>> THEN JsNull ELSE Str(text)

\* modified?.toQuery() || null
transformModified(modified) ==
    IF modified = JsNull THEN JsNull ELSE textOrNull(toQuery(modified))

\* transformQuery() after queryConverter(query)
transformConverter(converter, tr) ==
    LET transformer(ast) == applyTransformer(tr, ast)
    IN IF converter = JsNull THEN JsNull ELSE transformModified(modify(converter, transformer))

\* transformQuery(query, transformer)
transformQuery(q, tr) == transformConverter(queryConverter(q), tr)

\* value || null for a number: 0 is falsy
orNull(n) == IF n = Undefined \/ n.m = 0 THEN JsNull ELSE n

\* the object extractQueryComponents returns for a parsed query
componentsOf(ast) ==
    [t |-> "components",
     whereQuery |-> IF ast.where # Undefined
                    THEN Str(astToQuery([EmptyAST EXCEPT !.where = ast.where]))
                    ELSE JsNull,
     orderBy |-> IF ast.orderBy # Undefined THEN ast.orderBy ELSE JsNull,
     limit |-> orNull(ast.limit),
     offset |-> orNull(ast.offset),
     hasWhere |-> ast.where # Undefined,
     hasOrderBy |-> ast.orderBy # Undefined /\ Len(ast.orderBy.items) > 0,
     hasLimit |-> ast.limit # Undefined,
     hasOffset |-> ast.offset # Undefined,
     sortFieldCount |-> IF ast.orderBy # Undefined THEN Len(ast.orderBy.items) ELSE 0]

\* extractQueryComponents() after the parser call; null when it returned
\* null or threw
componentsOfResult(r) == IF r.kind = "ast" THEN componentsOf(r.ast) ELSE JsNull

\* extractQueryComponents(query)
extractQueryComponents(q) == componentsOfResult(parseComplete(q))

\* seeded fault: the predicates joined by `and` nested to the right
RECURSIVE combineWhereRight(_, _, _)
combineWhereRight(whereExprs, i, combinedWhere) ==
    IF i > Len(whereExprs) THEN combinedWhere
    ELSE Logical("and", combinedWhere, combineWhereRight(whereExprs, i + 1, whereExprs[i]))

\* for (let i = 1; i < whereExprs.length; i++)
\*     combinedWhere = { type: 'and', left: combinedWhere, right: whereExprs[i] }
\* (i is 1-based here)
RECURSIVE combineWhere(_, _, _)
combineWhere(whereExprs, i, combinedWhere) ==
    IF i > Len(whereExprs) THEN combinedWhere
    ELSE combineWhere(whereExprs, i + 1, Logical("and", combinedWhere, whereExprs[i]))

\* asts.filter(ast => ast && ast.where).map(ast => ast.where)
whereExprsOf(asts) ==
    LET withWhere(r) == r.ast.where # Undefined
        kept == SelectSeq(asts, withWhere)
    IN [i \in 1..Len(kept) |-> kept[i].ast.where]

\* combineQueries(): the where clauses are extracted
combineExprs(whereExprs) ==
    IF Len(whereExprs) = 0 THEN Str(<<>>)
    ELSE Str(astToQuery(CompleteQueryAST(combineWhere(whereExprs, 2, whereExprs[1]),
                                         Undefined, Undefined, Undefined)))

\* combineQueries(): every query has been handed to parseKintoneQueryComplete;
\* a throw is caught and gives null, and so does a null among the results
combineParsed(asts) ==
    IF \E i \in 1..Len(asts) : asts[i].kind = "error" THEN JsNull
    ELSE IF \E i \in 1..Len(asts) : asts[i].kind = "null" THEN JsNull
    ELSE combineExprs(whereExprsOf(asts))

\* combineQueries(queries)
combineQueries(queries) ==
    IF Len(queries) = 0 THEN Str(<<>>)
    ELSE IF Len(queries) = 1 THEN Str(queries[1])
    ELSE combineParsed([i \in 1..Len(queries) |-> parseComplete(queries[i])])

-----------------------------------------------------------------------------
(* QueryBuilder: the options of one builder object (orderBy is not set,   *)
(* one clause, or an array of clauses) and its build()                    *)

\* private options: QueryOptions = {}
QueryOptions(orderBy, limit, offset) == [orderBy |-> orderBy, limit |-> limit, offset |-> offset]
NoOptions == QueryOptions(Undefined, Undefined, Undefined)

\* options.orderBy holding a single clause rather than an array
SingleClause(c) == [t |-> "clause", clause |-> c]

\* direction: 'asc' | 'desc' = 'asc' ("undefined": the argument is left out)
directionOrDefault(direction) == IF direction = "undefined" THEN "asc" ELSE direction

\* seeded fault: a later orderBy() call replaces the clause stored
builderOrderByReplacing(opts, field, direction) ==
    [opts EXCEPT !.orderBy = SingleClause(OrderByClause(field, directionOrDefault(direction)))]

\* orderBy(field, direction)
builderOrderBy(opts, field, direction) ==
    IF opts.orderBy = Undefined
    THEN [opts EXCEPT !.orderBy = SingleClause(OrderByClause(field, directionOrDefault(direction)))]
    ELSE IF opts.orderBy.t = "array"
         THEN [opts EXCEPT !.orderBy =
                  Arr(Append(opts.orderBy.items, OrderByClause(field, directionOrDefault(direction))))]
    ELSE [opts EXCEPT !.orderBy =
             Arr(<<opts.orderBy.clause, OrderByClause(field, directionOrDefault(direction))>>)]

\* orderByMany(clauses)
builderOrderByMany(opts, clauses) ==
    [opts EXCEPT !.orderBy = Arr([i \in 1..Len(clauses) |-> OrderByClause(clauses[i].field, clauses[i].direction)])]

\* what a builder method did: it threw, or it returned with these options
Stored(opts) == [threw |-> FALSE, options |-> opts]
Rejected(opts) == [threw |-> TRUE, options |-> opts]

\* seeded fault: limit() without the Number.isInteger check
builderLimitRangeOnly(opts, count) ==
    IF NumLess(count, 1) \/ NumGreater(count, LimitMax) THEN Rejected(opts)
    ELSE Stored([opts EXCEPT !.limit = count])

\* limit(count)
builderLimit(opts, count) ==
    IF NumLess(count, 1) \/ NumGreater(count, LimitMax) THEN Rejected(opts)
    ELSE IF ~IsInteger(count) THEN Rejected(opts)
    ELSE Stored([opts EXCEPT !.limit = count])

\* offset(count)
builderOffset(opts, count) ==
    IF NumLess(count, 0) \/ NumGreater(count, OffsetMax) THEN Rejected(opts)
    ELSE IF ~IsInteger(count) THEN Rejected(opts)
    ELSE Stored([opts EXCEPT !.offset = count])

\* the ORDER BY part of build()
buildOrderBy(orderBy) ==
    IF orderBy = Undefined THEN <<>>
    ELSE IF orderBy.t = "array"
         THEN << OrderByText \o Join([i \in 1..Len(orderBy.items) |-> clauseText(orderBy.items[i])], <<",", " ">>) >>
    ELSE << OrderByText \o clauseText(orderBy.clause) >>

\* build() of a builder constructed without a lambda (expression is null)
build(opts) ==
    Join(buildOrderBy(opts.orderBy)
         \o (IF opts.limit # Undefined THEN << LimitText \o NumberToString(opts.limit) >> ELSE <<>>)
         \o (IF opts.offset # Undefined THEN << OffsetText \o NumberToString(opts.offset) >> ELSE <<>>),
         <<" ">>)

-----------------------------------------------------------------------------
(* Model bounds                                                             *)

\* predicates per chain of and/or in the generated query texts
MaxChain == 3
\* characters per string handed to escapeValue
MaxStrLen == 4
\* clauses per text in the generated sequences of clauses
MaxClauses == 4
\* calls of orderBy, orderByMany, limit and offset made on one QueryBuilder
MaxCalls == 4
\* AST objects created for one converter and the converters derived from it
MaxObjects == 5
\* queries per list handed to combineQueries
MaxCombined == 3
\* offsets at which consumeKeyword is called on a text
MaxKeywordStart == 2
\* parse and parseComplete calls made on one parser object
MaxParses == 3
\* characters per text whose loops are run one pass at a time
MaxLoopText == 12
\* passes of one loop
MaxPasses == 14

-----------------------------------------------------------------------------
(* Query texts the calls are made with                                     *)

PEq == <<"A"," ","="," ","1">>
PNe == <<"B"," ","!","="," ","\"","x","\"">>
PGt == <<"C"," ",">"," ","-","2",".","5">>
PLt == <<"C"," ","<"," ","1","0">>
PGe == <<"A"," ",">","="," ","T","O","D","A","Y","(",")">>
PLe == <<"B"," ","<","="," ","F","R","O","M","_","T","O","D","A","Y","(","5",","," ","\"","D","A","Y","S","\"",")">>
PIn == <<"C"," ","i","n"," ","(","\"","a","\"",","," ","2",")">>
PNotIn == <<"B"," ","n","o","t"," ","i","n"," ","(","L","O","G","I","N","U","S","E","R","(",")",")">>
PLike == <<"D"," ","l","i","k","e"," ","\"","a","%","\"">>
PNotLike == <<"A"," ","n","o","t"," ","l","i","k","e"," ","\"","q","\\","\"","\\","\\","\"">>
PIsEmpty == <<"B"," ","i","s"," ","e","m","p","t","y">>
PIsNotEmpty == <<"C"," ","i","s"," ","n","o","t"," ","e","m","p","t","y">>
PTight == <<"A","<","=","3">>
PInScalar == <<"A"," ","i","n"," ","5">>
PLikeNumber == <<"B"," ","l","i","k","e"," ","7">>
PSubtable == <<"O","r","d","e","r","I","t","e","m","s",".","Q","u","a","n","t","i","t","y"," ",">"," ","1","0">>
POrderNo == <<"o","r","d","e","r","_","n","o"," ","="," ","1">>
PLimitField == <<"L","i","m","i","t"," ",">","="," ","2">>
POffsets == <<"o","f","f","s","e","t","s"," ","<"," ","3">>
PUnknownFunction == <<"A"," ","="," ","F","O","O","(",")">>
PUnknownInList == <<"B"," ","i","n"," ","(","M","Y","_","F","N","(","1",")",","," ","N","O","W","(",")",")">>
PThreeSegments == <<"a",".","b",".","c"," ","="," ","1">>
PLeadingDot == <<".","a"," ","="," ","1">>
PTrailingDot == <<"a","."," ","="," ","1">>
POnlyDots == <<".","."," ","="," ","1">>
OrderDoubleDot == <<"o","r","d","e","r"," ","b","y"," ","a",".",".","b"," ","d","e","s","c">>
PRDot == <<"r",".","x"," ","="," ","1">>
PLowerArg == <<"A"," ","="," ","F","R","O","M","_","T","O","D","A","Y","(","5",","," ","\"","d","a","y","s","\"",")">>
BadUnterminated == <<"A"," ","="," ","\"","x">>
BadBackslashEnd == <<"A"," ","="," ","\"","x","\\">>
BadUnclosedParen == <<"(","A"," ","="," ","1">>
BadUnclosedArray == <<"A"," ","i","n"," ","(","\"","a","\"",","," ","2">>
BadNoOperator == <<"A"," ","1">>
BadDoubleEq == <<"A"," ","=","="," ","1">>
BadNoValue == <<"A"," ","=">>
BadNoValueAnd == <<"A"," ","="," ","1"," ","a","n","d">>
BadNoBy == <<"A"," ","="," ","1"," ","o","r","d","e","r">>
BadOrderOnly == <<"o","r","d","e","r">>
BadLimitWord == <<"l","i","m","i","t"," ","a","b","c">>
BadOffsetWord == <<"o","f","f","s","e","t"," ","x","y","z">>
BadLimitMissing == <<"A"," ","="," ","1"," ","l","i","m","i","t">>
BadLimitMinus == <<"l","i","m","i","t"," ","-">>
TrailWord == <<" ","g","a","r","b","a","g","e">>
TrailParen == <<" ",")">>
TrailString == <<" ","\"","x","\"">>
TrailLimit == <<" ","l","i","m","i","t"," ","6">>
TrailOrder == <<" ","o","r","d","e","r"," ","b","y"," ","A">>
OrderA == <<"o","r","d","e","r"," ","b","y"," ","A">>
OrderADesc == <<"o","r","d","e","r"," ","b","y"," ","A"," ","d","e","s","c">>
OrderTwo == <<"o","r","d","e","r"," ","b","y"," ","A"," ","a","s","c",","," ","B"," ","d","e","s","c">>
OrderSub == <<"o","r","d","e","r"," ","b","y"," ","O","r","d","e","r","I","t","e","m","s",".","Q","u","a","n","t","i","t","y"," ","d","e","s","c"," ",",","B">>
Blank == <<" "," "," ">>
PrefixA == <<"A"," ","="," ","1"," ">>
PrefixAB == <<"A"," ","="," ","1"," ","o","r","d","e","r"," ","b","y"," ","B"," ">>
EqPrefix == <<"A"," ","="," ">>
SepAnd == <<" ","a","n","d"," ">>
SepOr == <<" ","o","r"," ">>
FieldA == <<"A">>
FieldB == <<"B">>
FieldC == <<"C">>
FieldRX == <<"r",".","x">>
FieldSub == <<"O","r","d","e","r","I","t","e","m","s",".","Q","u","a","n","t","i","t","y">>
NameTODAY == <<"T","O","D","A","Y">>
NameFROM_TODAY == <<"F","R","O","M","_","T","O","D","A","Y">>
NameLOGINUSER == <<"L","O","G","I","N","U","S","E","R">>
StrOpen == <<"O","p","e","n">>
StrDAYS == <<"D","A","Y","S">>
StrQuote == <<"a","\"","b">>

PredTexts == {PEq, PNe, PGt, PLt, PGe, PLe, PIn, PNotIn, PLike, PNotLike, PIsEmpty, PIsNotEmpty, PTight, PInScalar, PLikeNumber, PSubtable, POrderNo, PLimitField, POffsets, PRDot, PLowerArg,
              PUnknownFunction, PUnknownInList}
\* texts whose field position holds a path that is neither an identifier nor
\* two identifiers around one dot
BadPathTexts == {PThreeSegments, PLeadingDot, PTrailingDot, POnlyDots, OrderDoubleDot}
MalformedTexts == {BadUnterminated, BadBackslashEnd, BadUnclosedParen, BadUnclosedArray, BadNoOperator, BadDoubleEq, BadNoValue, BadNoValueAnd, BadNoBy, BadOrderOnly, BadLimitWord, BadOffsetWord, BadLimitMissing, BadLimitMinus}
TrailingSuffixes == {TrailWord, TrailParen, TrailString, TrailLimit, TrailOrder}

\* P1 c1 P2 c2 ... Pn without parentheses
ChainPreds == {PEq, PIsEmpty, PIn, PLike, PInScalar}
Connectives == {SepAnd, SepOr}
RECURSIVE ChainsOf(_)
ChainsOf(n) == IF n = 1 THEN ChainPreds
               ELSE {c \o s \o p : c \in ChainsOf(n - 1), s \in Connectives, p \in ChainPreds}
ChainTexts == UNION {ChainsOf(n) : n \in 1..MaxChain}

ParenPreds == {PEq, PIsEmpty, PIn}
ParenTexts ==
    {<<"(">> \o a \o SepOr \o b \o <<")">> \o SepAnd \o c : a \in ParenPreds, b \in ParenPreds, c \in ParenPreds}
    \cup {a \o SepAnd \o <<"(">> \o b \o SepOr \o c \o <<")">> : a \in ParenPreds, b \in ParenPreds, c \in ParenPreds}
    \cup {<<"(", " ">> \o a \o <<" ", ")">> : a \in ParenPreds}
    \cup {<<"(", "(">> \o a \o <<")", ")">> : a \in ParenPreds}

\* numbers written after limit / offset: both sides of each bound, and 50.5
PageNums == {Num(-1), Num(0), Num(1), Num(2), Num(LimitMax), Num(LimitMax + 1),
             Num(OffsetMax), Num(OffsetMax + 1), Dec(505, 1)}
PagePrefixes == {<<>>, PrefixA, PrefixAB}
LimitOnly(pre, n) == pre \o LimitText \o NumberToString(n)
OffsetOnly(pre, n) == pre \o OffsetText \o NumberToString(n)
LimitOffset(pre, n, m) == pre \o LimitText \o NumberToString(n) \o <<" ">> \o OffsetText \o NumberToString(m)
PageTexts ==
    {LimitOnly(pre, n) : pre \in PagePrefixes, n \in PageNums}
    \cup {OffsetOnly(pre, n) : pre \in PagePrefixes, n \in PageNums}
    \cup {LimitOffset(pre, n, m) : pre \in PagePrefixes, n \in PageNums, m \in PageNums}

OrderTexts == {OrderA, OrderADesc, OrderTwo, OrderSub}
ClauseTexts == OrderTexts \cup {p \o <<" ">> \o o : p \in {PEq, PIsEmpty, PLe}, o \in OrderTexts}

\* a query with all four clauses, and texts with something left over after
\* the grammar is consumed
FullQuery == PEq \o <<" ">> \o OrderADesc \o <<" ">> \o LimitText \o <<"5", " ">> \o OffsetText \o <<"2">>
TrailingTexts == {FullQuery \o s : s \in TrailingSuffixes}
                 \cup {PEq \o s : s \in {TrailWord, TrailParen, TrailString}}

\* sequences of clauses in every order, with repetitions: `A = 1`,
\* `order by A desc`, `limit 5` and `offset 2` separated by one space
ClauseKinds == {"where", "orderBy", "limit", "offset"}
RECURSIVE KindSeqs(_)
KindSeqs(n) == IF n = 0 THEN {<<>>}
               ELSE {Append(ks, k) : ks \in KindSeqs(n - 1), k \in ClauseKinds}
ClauseSeqs == UNION {KindSeqs(n) : n \in 1..MaxClauses}
ClauseOf(k) == IF k = "where" THEN PEq
               ELSE IF k = "orderBy" THEN OrderADesc
               ELSE IF k = "limit" THEN LimitText \o <<"5">>
               ELSE OffsetText \o <<"2">>
SeqText(ks) == Join([i \in 1..Len(ks) |-> ClauseOf(ks[i])], <<" ">>)
ClauseSeqTexts == {SeqText(ks) : ks \in ClauseSeqs}

\* runs of distinct predicates joined by one and the same connective: n
\* predicates of RunOrder starting after the k-th, wrapping around
RunOrder == <<PEq, PIsEmpty, PIn, PLike, PInScalar>>
Run(k, n) == [i \in 1..n |-> RunOrder[((k + i - 1) % Len(RunOrder)) + 1]]
RunStarts == 0..(Len(RunOrder) - 1)
RunLengths == 1..Len(RunOrder)
RunText(k, n, sep) == Join(Run(k, n), sep)
RunTexts == {RunText(k, n, sep) : k \in RunStarts, n \in RunLengths, sep \in Connectives}

\* texts and words consumeKeyword is called with
KeywordSnippets == {<<>>, <<" ">>, <<"o">>, KwOr, KwOrder, KwOr \o <<" ", "A">>, KwOr \o <<"(">>,
                    <<" ", " ">> \o KwOr \o <<" ">>, KwOr \o <<"x">>, KwOrder \o <<" ">> \o KwBy,
                    OpIn, OpIn \o <<"(">>, OpIn \o <<"d", "e", "x">>, OpIn \o <<" ", "1">>,
                    <<" ">> \o KwAnd \o <<",">>, KwAnd \o <<"\"">>}
Keywords == {KwOr, KwOrder, KwAnd, OpIn}
\* predicates followed by a word that begins with a connective or an operator
POrderAfter == PEq \o <<" ">> \o OrderA
PIndex == <<"A", " ", "i", "n", "d", "e", "x", " ", "1">>
PInList == <<"A", " ", "i", "n", " ", "(", "1", ")">>
KeywordTexts == {POrderAfter, PIndex, PInList}

\* `F op V` for each operator: the operand written and the value it denotes
EmptyOperators == {OpIsEmpty, OpIsNotEmpty}
OperandText(o) ==
    IF o \in {OpIn, OpNotIn} THEN <<"(", "1", ")">>
    ELSE IF o \in {OpLike, OpNotLike} THEN <<"\"", "a", "\"">>
    ELSE IF o \in EmptyOperators THEN <<>>
    ELSE <<"1">>
OperandValue(o) ==
    IF o \in {OpIn, OpNotIn} THEN Arr(<<Num(1)>>)
    ELSE IF o \in {OpLike, OpNotLike} THEN Str(<<"a">>)
    ELSE IF o \in EmptyOperators THEN Undefined
    ELSE Num(1)
OperatorText(o) ==
    FieldA \o <<" ">> \o o \o (IF o \in EmptyOperators THEN <<>> ELSE <<" ">> \o OperandText(o))
\* the same with nothing between field, symbol and operand
TightText(o) == FieldA \o o \o OperandText(o)
SymbolOperators == {OpEq, OpNe, OpGt, OpLt, OpGe, OpLe}
OperatorTexts == {OperatorText(o) : o \in KintoneOperators} \cup {TightText(o) : o \in SymbolOperators}

Texts == PredTexts \cup ChainTexts \cup ParenTexts \cup PageTexts \cup ClauseTexts
         \cup MalformedTexts \cup TrailingTexts \cup ClauseSeqTexts \cup RunTexts \cup BadPathTexts
         \cup OperatorTexts \cup KeywordTexts \cup {FullQuery, Blank, <<>>}

\* texts handed to queryConverter, transformQuery and extractQueryComponents
ConverterTexts == PredTexts \cup ChainsOf(2) \cup ClauseTexts \cup MalformedTexts
                  \cup {FullQuery, Blank, <<>>, LimitOnly(<<>>, Num(5)), OffsetOnly(PrefixA, Num(0))}

SetterNums == {Num(0), Num(1), Num(25), Num(LimitMax), Num(LimitMax + 1), Num(OffsetMax + 1), Dec(505, 1)}
SetterOrders == {Undefined, Arr(<<>>), Arr(<<OrderByClause(FieldB, "desc")>>),
                 Arr(<<OrderByClause(FieldA, "asc"), OrderByClause(FieldSub, "desc")>>)}
\* texts handed to a parser object that has been used before
ReuseTexts == {PEq, PNotIn, PInScalar, POrderAfter, FullQuery, BadNoValue, BadUnterminated,
               FullQuery \o TrailWord, Blank, <<>>}

\* texts on which the loops are run one pass at a time
LoopTexts == {<<"A", "=", "1", " ", "o", "r", " ", "B", "=", "2", " ", "o">>,
              <<"A", "=", "1", " ", "a", "n", "d", " ", "(", "B", "=", "2">>,
              <<"A", ",", "B", " ", "d", "e", "s", "c", " ", ",", " ", "C">>,
              <<"(", "\"", "a", "\"", ",", " ", "2", ",", "N", "(", ")", ")">>,
              <<"(", "1", ",", ",", "2", ")">>,
              <<"\"", "a", "\\", "\"", "b", "\\", "\\", "\"", " ", "\"", "x", "\\">>,
              <<"-", "1", "2", ".", "5", ".", " ", " ", "\t", "7", " ">>,
              <<"T", "O", "_", "D", " ", " ", "(", ")", " ", "X", "Y", "(">>,
              <<" ", "O", "r", "d", "e", "r", " ", "b", "y", " ", "A">>,
              <<" ", " ", "l", "i", "m", "i", "t", " ", "5">>,
              PEq, <<>>}

\* the lists handed to combineQueries
CombineTexts == {PEq, PNe, PEq \o SepOr \o PNe, OrderADesc, LimitOnly(<<>>, Num(5)), FullQuery,
                 BadNoValue, Blank}
CombineLists == UNION {[1..n -> CombineTexts] : n \in 0..MaxCombined}

\* arguments of setWhere
SetterWheres == {Undefined, Pred(FieldB, OpEq, Num(1))}
\* modifier callbacks handed to modify
ModifierEdits == {[key |-> "limit", value |-> Num(7)],
                  [key |-> "where", value |-> Undefined],
                  [key |-> "where.field", value |-> Str(FieldB)],
                  [key |-> "orderBy", value |-> Arr(<<OrderByClause(FieldB, "desc")>>)]}
Transformers == {[limit |-> Num(25), offset |-> Undefined],
                 [limit |-> Undefined, offset |-> Num(10)],
                 [limit |-> Num(LimitMax), offset |-> Num(0)]}

\* strings handed to escapeValue: every string over a quote, a backslash
\* and a letter, up to MaxStrLen characters
EscapeAlphabet == {"\"", "\\", "a"}
RECURSIVE StringsOfLen(_)
StringsOfLen(n) == IF n = 0 THEN {<<>>}
                   ELSE {Append(s, c) : s \in StringsOfLen(n - 1), c \in EscapeAlphabet}
EscapeStrings == UNION {StringsOfLen(n) : n \in 0..MaxStrLen}

-----------------------------------------------------------------------------
(* Programmatically built ASTs handed to astToQuery                        *)

\* function calls whose string argument is not a constant name: lower-case
\* letters, a double quote, a backslash
StrDays == <<"d", "a", "y", "s">>
StrBackslash == <<"a", "\\", "b">>
ArgumentCalls == {Func(NameFROM_TODAY, <<Num(-1), Str(StrDays)>>),
                  Func(NameFROM_TODAY, <<Dec(15, 1), Str(StrQuote)>>),
                  Func(NameFROM_TODAY, <<Num(5), Str(StrBackslash)>>)}
ScalarValues == {Num(1), Dec(-25, 1), Str(StrOpen), Str(StrQuote),
                 Func(NameTODAY, <<>>), Func(NameFROM_TODAY, <<Num(5), Str(StrDAYS)>>)}
                \cup ArgumentCalls
ListValues == {Arr(<<Str(StrOpen), Num(2)>>), Arr(<<Func(NameLOGINUSER, <<>>)>>), Func(NameLOGINUSER, <<>>)}
BuiltPreds ==
    {Pred(FieldA, o, v) : o \in {OpEq, OpNe, OpGt, OpLt, OpGe, OpLe}, v \in ScalarValues}
    \cup {Pred(FieldB, o, v) : o \in {OpIn, OpNotIn}, v \in ListValues}
    \cup {Pred(FieldC, o, v) : o \in {OpLike, OpNotLike}, v \in {Str(StrOpen), Str(StrQuote)}}
    \cup {Pred(FieldSub, o, Undefined) : o \in {OpIsEmpty, OpIsNotEmpty}}
CorePreds == {Pred(FieldA, OpEq, Num(1)), Pred(FieldSub, OpIsEmpty, Undefined),
              Pred(FieldB, OpIn, Arr(<<Str(StrOpen), Num(2)>>))}
BuiltExprs ==
    BuiltPreds
    \cup {Logical(k, a, b) : k \in {"and", "or"}, a \in CorePreds, b \in CorePreds}
    \cup {Logical("and", Logical("or", a, b), a) : a \in CorePreds, b \in CorePreds}
    \cup {Logical("or", a, Logical("and", a, b)) : a \in CorePreds, b \in CorePreds}
    \cup {Logical(k, a, Logical(j, b, a)) : k \in {"and", "or"}, j \in {"and", "or"}, a \in CorePreds, b \in CorePreds}
    \cup {Not(a) : a \in CorePreds}
BuiltTails == {<<Undefined, Undefined, Undefined>>,
               <<Arr(<<OrderByClause(FieldB, "desc")>>), Undefined, Undefined>>,
               <<Undefined, Num(LimitMax), Num(0)>>,
               <<Arr(<<>>), Num(5), Undefined>>,
               <<Arr(<<>>), Undefined, Undefined>>,
               <<Arr(<<OrderByClause(FieldA, "asc"), OrderByClause(FieldSub, "desc")>>), Num(1), Num(OffsetMax)>>}
BuiltQueries == {CompleteQueryAST(w, tl[1], tl[2], tl[3]) : w \in BuiltExprs \cup {Undefined}, tl \in BuiltTails}

-----------------------------------------------------------------------------
(* Arguments of the QueryBuilder calls                                      *)

BuilderFields == {FieldA, FieldB}
\* "undefined": orderBy(field) called without a direction
BuilderDirections == {"undefined", "desc"}
BuilderLists == {<<>>, <<OrderByClause(FieldB, "desc"), OrderByClause(FieldSub, "asc")>>}
\* both sides of each bound, and a number that is in range but not an integer
BuilderLimits == {Num(0), Num(1), Num(LimitMax), Num(LimitMax + 1), Dec(505, 1)}
BuilderOffsets == {Num(-1), Num(0), Num(OffsetMax), Num(OffsetMax + 1), Dec(5, 1)}

-----------------------------------------------------------------------------
(* State machine: one API call on a fresh parser (parseKintoneQuery and    *)
(* parseKintoneQueryComplete construct a new KintoneQueryParser per call), *)
(* followed by the calls a caller makes on what it returned.               *)

NoOutcome == [kind |-> "none", ast |-> Undefined, err |-> ""]
NotBuilt == [from |-> "text"]
NoText == [t |-> "none"]

\* a call made on the builder: its name, its argument, whether it threw and
\* the text it returned (build() only)
Call(name, arg, threw, text) == [name |-> name, arg |-> arg, threw |-> threw, text |-> text]
NoCall == Call("none", Undefined, FALSE, NoText)
NoLoop == [name |-> "none", status |-> "none", start |-> 0, passes |-> 0, passAt |-> <<>>]

Init ==
    /\ input = <<>>
    /\ pos = 0
    /\ op = "new"
    /\ query = <<>>
    /\ built = NotBuilt
    /\ outcome = NoOutcome
    /\ warnings = 0
    /\ conv = JsNull
    /\ derived = JsNull
    /\ regenerated = NoText
    /\ options = NoOptions
    /\ call = NoCall
    /\ ncalls = 0
    /\ allocs = 0
    /\ nparses = 0
    /\ loop = NoLoop

\* the parser fields and the sink after a call that returned r
ParserAfter(r) ==
    /\ input' = r.input
    /\ pos' = r.pos
    /\ warnings' = warnings + r.w

OutcomeOf(r) == [kind |-> r.kind, ast |-> r.ast, err |-> r.err]

\* parseKintoneQuery(query)
Parse(q) ==
    /\ op = "new"
    /\ LET r == parse(q)
       IN /\ ParserAfter(r)
          /\ outcome' = OutcomeOf(r)
    /\ op' = "parse"
    /\ query' = q
    /\ nparses' = 1
    /\ UNCHANGED <<options, call, ncalls, allocs, loop>>
    /\ UNCHANGED <<built, conv, derived, regenerated>>

\* parseKintoneQueryComplete(query)
ParseComplete(q) ==
    /\ op = "new"
    /\ LET r == parseComplete(q)
       IN /\ ParserAfter(r)
          /\ outcome' = OutcomeOf(r)
    /\ op' = "parseComplete"
    /\ query' = q
    /\ nparses' = 1
    /\ UNCHANGED <<options, call, ncalls, allocs, loop>>
    /\ UNCHANGED <<built, conv, derived, regenerated>>

\* parse / parseComplete on a parser object returned r
ParserReturned(r) ==
    /\ ParserAfter(r)
    /\ outcome' = OutcomeOf(r)

\* the parser object calls have been made on
ParserReusable ==
    op \in {"parse", "parseComplete", "parseAgain", "parseCompleteAgain"} /\ nparses < MaxParses

\* parser.parse(query) on the parser object of the earlier calls
ParseAgain(q) ==
    /\ ParserReusable
    /\ ParserReturned(parseOn(Parser(input, pos), q))
    /\ op' = "parseAgain"
    /\ query' = q
    /\ nparses' = nparses + 1
    /\ UNCHANGED <<options, call, ncalls, allocs, loop>>
    /\ UNCHANGED <<built, conv, derived, regenerated>>

\* parser.parseComplete(query) on the parser object of the earlier calls
ParseCompleteAgain(q) ==
    /\ ParserReusable
    /\ ParserReturned(parseCompleteOn(Parser(input, pos), q))
    /\ op' = "parseCompleteAgain"
    /\ query' = q
    /\ nparses' = nparses + 1
    /\ UNCHANGED <<options, call, ncalls, allocs, loop>>
    /\ UNCHANGED <<built, conv, derived, regenerated>>

\* astToQuery(ast) on the AST the parser has just returned
Regenerate ==
    /\ op = "parseComplete"
    /\ outcome.kind = "ast"
    /\ regenerated' = [t |-> "text", text |-> astToQuery(outcome.ast), reparsed |-> NoOutcome]
    /\ op' = "astToQuery"
    /\ UNCHANGED <<options, call, ncalls, allocs, nparses, loop>>
    /\ UNCHANGED <<input, pos, query, built, outcome, warnings, conv, derived>>

\* astToQuery(ast) on a programmatically built AST
AstToQuery(q) ==
    /\ op = "new"
    /\ built' = [from |-> "ast", ast |-> q]
    /\ regenerated' = [t |-> "text", text |-> astToQuery(q), reparsed |-> NoOutcome]
    /\ op' = "astToQuery"
    /\ UNCHANGED <<options, call, ncalls, allocs, nparses, loop>>
    /\ UNCHANGED <<input, pos, query, outcome, warnings, conv, derived>>

\* the text of a predicate whose value is the literal "escapeValue(s)"
EscapeLiteral(s) ==
    /\ op = "new"
    /\ built' = [from |-> "string", s |-> s]
    /\ regenerated' = [t |-> "text", text |-> EqPrefix \o Quoted(escapeValue(s)), reparsed |-> NoOutcome]
    /\ op' = "escapeValue"
    /\ UNCHANGED <<options, call, ncalls, allocs, nparses, loop>>
    /\ UNCHANGED <<input, pos, query, outcome, warnings, conv, derived>>

\* parseKintoneQueryComplete on the text produced by the previous step
Reparse ==
    /\ op \in {"astToQuery", "escapeValue"}
    /\ LET r == parseComplete(regenerated.text)
       IN /\ ParserAfter(r)
          /\ regenerated' = [regenerated EXCEPT !.reparsed = OutcomeOf(r)]
    /\ op' = "reparse"
    /\ UNCHANGED <<options, call, ncalls, allocs, nparses, loop>>
    /\ UNCHANGED <<query, built, outcome, conv, derived>>

\* a converter as the caller holds it: obj names its AST object
Held(c, id) ==
    IF c.t = "converter"
    THEN [t |-> "converter", ast |-> c.ast, originalQuery |-> c.originalQuery, obj |-> id]
    ELSE c

\* AST objects a converter method creates: none when it throws before
\* modify(), else the JSON copy and, if the text parses, the new converter's AST
Created(result) ==
    IF result.t = "error" THEN 0 ELSE IF result.t = "converter" THEN 2 ELSE 1

\* consumeKeyword(word) on a parser whose input is text and whose offset is p
ConsumeKeywordReturned(text, p, word, c) ==
    /\ input' = text
    /\ pos' = c.pos
    /\ derived' = [call |-> "consumeKeyword", arg |-> [word |-> word, at |-> p],
                   result |-> [t |-> "boolean", v |-> c.hit]]

ConsumeKeyword(text, p, word) ==
    /\ op = "new"
    /\ p <= Len(text)
    /\ ConsumeKeywordReturned(text, p, word, consumeKeyword(text, p, word))
    /\ op' = "consumeKeyword"
    /\ UNCHANGED <<options, call, ncalls, allocs, nparses, loop>>
    /\ UNCHANGED <<query, built, outcome, warnings, conv, regenerated>>

\* queryConverter(query) returned c: its AST, if any, is the first object
QueryConverterReturned(c) ==
    /\ allocs' = IF c = JsNull THEN 0 ELSE 1
    /\ conv' = Held(c, 1)

\* queryConverter(query)
QueryConverter(q) ==
    /\ op = "new"
    /\ QueryConverterReturned(queryConverter(q))
    /\ op' = "queryConverter"
    /\ query' = q
    /\ UNCHANGED <<options, call, ncalls, nparses, loop>>
    /\ UNCHANGED <<input, pos, built, outcome, warnings, derived, regenerated>>

ConverterOps == {"queryConverter", "modify", "setWhere", "setOrderBy", "setLimit", "setOffset"}

ConverterReady == op \in ConverterOps /\ conv # JsNull /\ allocs + 2 <= MaxObjects

\* a method called on the converter: what it returned and the receiver afterwards
Method(name, arg, result, receiver) ==
    /\ ConverterReady
    /\ allocs' = allocs + Created(result)
    /\ derived' = [call |-> name, arg |-> arg, result |-> Held(result, allocs')]
    /\ conv' = receiver
    /\ op' = name
    /\ UNCHANGED <<options, call, ncalls, nparses, loop>>
    /\ UNCHANGED <<input, pos, query, built, outcome, warnings, regenerated>>

\* converter.modify(modifier)
Modify(edit) == Method("modify", edit, modifyEdit(conv, edit), modifyReceiver(conv, edit))

\* converter.setWhere(w)
SetWhere(w) ==
    Method("setWhere", w, setWhere(conv, w), modifyReceiver(conv, [key |-> "where", value |-> w]))

\* converter.setLimit(n)
SetLimit(n) == Method("setLimit", n, setLimit(conv, n), setLimitReceiver(conv, n))

\* converter.setOffset(n)
SetOffset(n) == Method("setOffset", n, setOffset(conv, n), setOffsetReceiver(conv, n))

\* converter.setOrderBy(o)
SetOrderBy(o) ==
    Method("setOrderBy", o, setOrderBy(conv, o), modifyReceiver(conv, [key |-> "orderBy", value |-> o]))

\* transformQuery(query, transformer)
TransformQuery(q, tr) ==
    /\ op = "new"
    /\ derived' = [call |-> "transformQuery", arg |-> tr, result |-> transformQuery(q, tr)]
    /\ op' = "transformQuery"
    /\ query' = q
    /\ UNCHANGED <<options, call, ncalls, allocs, nparses, loop>>
    /\ UNCHANGED <<input, pos, built, outcome, warnings, conv, regenerated>>

\* combineQueries(queries)
CombineQueries(queries) ==
    /\ op = "new"
    /\ derived' = [call |-> "combineQueries", arg |-> queries, result |-> combineQueries(queries)]
    /\ op' = "combineQueries"
    /\ UNCHANGED <<options, call, ncalls, allocs, nparses, loop>>
    /\ UNCHANGED <<input, pos, query, built, outcome, warnings, conv, regenerated>>

\* extractQueryComponents(query)
ExtractQueryComponents(q) ==
    /\ op = "new"
    /\ derived' = [call |-> "extractQueryComponents", arg |-> Undefined, result |-> extractQueryComponents(q)]
    /\ op' = "extractQueryComponents"
    /\ query' = q
    /\ UNCHANGED <<options, call, ncalls, allocs, nparses, loop>>
    /\ UNCHANGED <<input, pos, built, outcome, warnings, conv, regenerated>>

BuilderReady == op \in {"new", "builder"} /\ ncalls < MaxCalls

\* builder.orderBy(field, direction)
BuilderOrderBy(field, direction) ==
    /\ BuilderReady
    /\ options' = builderOrderBy(options, field, direction)
    /\ call' = Call("orderBy", OrderByClause(field, direction), FALSE, NoText)
    /\ ncalls' = ncalls + 1
    /\ op' = "builder"
    /\ UNCHANGED <<input, pos, query, built, outcome, warnings, conv, derived, regenerated, allocs, nparses, loop>>

\* builder.orderByMany(clauses)
BuilderOrderByMany(clauses) ==
    /\ BuilderReady
    /\ options' = builderOrderByMany(options, clauses)
    /\ call' = Call("orderByMany", clauses, FALSE, NoText)
    /\ ncalls' = ncalls + 1
    /\ op' = "builder"
    /\ UNCHANGED <<input, pos, query, built, outcome, warnings, conv, derived, regenerated, allocs, nparses, loop>>

\* builder.limit(count)
BuilderLimit(count) ==
    /\ BuilderReady
    /\ options' = builderLimit(options, count).options
    /\ call' = Call("limit", count, builderLimit(options, count).threw, NoText)
    /\ ncalls' = ncalls + 1
    /\ op' = "builder"
    /\ UNCHANGED <<input, pos, query, built, outcome, warnings, conv, derived, regenerated, allocs, nparses, loop>>

\* builder.offset(count)
BuilderOffset(count) ==
    /\ BuilderReady
    /\ options' = builderOffset(options, count).options
    /\ call' = Call("offset", count, builderOffset(options, count).threw, NoText)
    /\ ncalls' = ncalls + 1
    /\ op' = "builder"
    /\ UNCHANGED <<input, pos, query, built, outcome, warnings, conv, derived, regenerated, allocs, nparses, loop>>

\* builder.build()
BuilderBuild ==
    /\ op \in {"new", "builder"}
    /\ call' = Call("build", Undefined, FALSE, [t |-> "text", text |-> build(options)])
    /\ op' = "builder"
    /\ UNCHANGED <<options, ncalls>>
    /\ UNCHANGED <<input, pos, query, built, outcome, warnings, conv, derived, regenerated, allocs, nparses, loop>>

Next ==
    \/ \E q \in Texts : Parse(q)
    \/ \E q \in Texts : ParseComplete(q)
    \/ Regenerate
    \/ \E q \in BuiltQueries : AstToQuery(q)
    \/ \E s \in EscapeStrings : EscapeLiteral(s)
    \/ Reparse
    \/ \E q \in ConverterTexts : QueryConverter(q)
    \/ \E n \in SetterNums : SetLimit(n)
    \/ \E n \in SetterNums : SetOffset(n)
    \/ \E o \in SetterOrders : SetOrderBy(o)
    \/ \E w \in SetterWheres : SetWhere(w)
    \/ \E edit \in ModifierEdits : Modify(edit)
    \/ \E q \in ConverterTexts, tr \in Transformers : TransformQuery(q, tr)
    \/ \E q \in ConverterTexts : ExtractQueryComponents(q)
    \/ \E queries \in CombineLists : CombineQueries(queries)
    \/ \E q \in ReuseTexts : ParseAgain(q)
    \/ \E q \in ReuseTexts : ParseCompleteAgain(q)
    \/ \E text \in KeywordSnippets, p \in 0..MaxKeywordStart, word \in Keywords : ConsumeKeyword(text, p, word)
    \/ \E f \in BuilderFields, d \in BuilderDirections : BuilderOrderBy(f, d)
    \/ \E l \in BuilderLists : BuilderOrderByMany(l)
    \/ \E n \in BuilderLimits : BuilderLimit(n)
    \/ \E n \in BuilderOffsets : BuilderOffset(n)
    \/ BuilderBuild

Spec == Init /\ [][Next]_vars

-----------------------------------------------------------------------------
(* The loops one pass at a time: a second next-state relation              *)

\* the loop being run: its name, how the last pass left it, the offset it
\* was entered at, the number of passes made, and what one pass does at each
\* offset of the text
Loop(name, status, start, passes, passAt) ==
    [name |-> name, status |-> status, start |-> start, passes |-> passes, passAt |-> passAt]

Loops == {"parseOr", "parseAnd", "parseOrderBy", "parseArray", "parseFunction",
          "parseString", "parseNumber", "skipWhitespace"}
Lookaheads == {"isFunction", "hasWhereClause"}

\* one pass of the loop called name (for a lookahead helper: the call)
passOf(name, inp, p) ==
    IF name = "parseOr" THEN orPass(inp, p)
    ELSE IF name = "parseAnd" THEN andPass(inp, p)
    ELSE IF name = "parseOrderBy" THEN orderByPass(inp, p)
    ELSE IF name \in {"parseArray", "parseFunction"} THEN itemsPass(inp, p)
    ELSE IF name = "parseString" THEN stringPass(inp, p)
    ELSE IF name = "parseNumber" THEN numberPass(inp, p)
    ELSE IF name = "skipWhitespace" THEN whitespacePass(inp, p)
    ELSE IF name = "isFunction" THEN Pass("done", isFunctionLeaves(inp, p))
    ELSE Pass("done", hasWhereClauseLeaves(inp, p))

\* the parser stands at offset p of text, at the head of a loop or at the
\* call of a lookahead helper
Enter(name, text, p) ==
    /\ op = "new"
    /\ p <= Len(text)
    /\ input' = text
    /\ pos' = p
    /\ loop' = Loop(name, "running", p, 0, [k \in 0..(Len(text) + 1) |-> passOf(name, text, k)])
    /\ op' = "loop"
    /\ UNCHANGED <<options, call, ncalls, allocs, nparses>>
    /\ UNCHANGED <<query, built, outcome, warnings, conv, derived, regenerated>>

\* the routine entered makes one pass from the offset it stands at
Passed ==
    /\ loop.status = "running"
    /\ loop.passes < MaxPasses
    /\ pos' = loop.passAt[pos].pos
    /\ loop' = [loop EXCEPT !.status = loop.passAt[pos].status, !.passes = @ + 1]
    /\ UNCHANGED <<options, call, ncalls, allocs, nparses>>
    /\ UNCHANGED <<input, op, query, built, outcome, warnings, conv, derived, regenerated>>

\* the routine called name is the one running
Running(name) == op = "loop" /\ loop.name = name

\* one pass of `while (this.consumeKeyword('or'))` in parseOr
OrPass ==
    /\ Running("parseOr")
    /\ Passed

\* one pass of `while (this.consumeKeyword('and'))` in parseAnd
AndPass ==
    /\ Running("parseAnd")
    /\ Passed

\* one pass of the do-while of parseOrderBy
OrderByPass ==
    /\ Running("parseOrderBy")
    /\ Passed

\* one pass of `while (this.peek() !== ')')` in parseArray
ArrayPass ==
    /\ Running("parseArray")
    /\ Passed

\* one pass of `while (this.peek() !== ')')` in parseFunction
FunctionPass ==
    /\ Running("parseFunction")
    /\ Passed

\* one pass of the loop of parseString
StringPass ==
    /\ Running("parseString")
    /\ Passed

\* one pass of the loop of parseNumber
NumberPass ==
    /\ Running("parseNumber")
    /\ Passed

\* one pass of the loop of skipWhitespace
WhitespacePass ==
    /\ Running("skipWhitespace")
    /\ Passed

\* isFunction() has returned
IsFunctionCalled ==
    /\ Running("isFunction")
    /\ Passed

\* hasWhereClause() has returned
HasWhereClauseCalled ==
    /\ Running("hasWhereClause")
    /\ Passed

\* the routine entered makes its next pass
NextPass ==
    \/ OrPass
    \/ AndPass
    \/ OrderByPass
    \/ ArrayPass
    \/ FunctionPass
    \/ StringPass
    \/ NumberPass
    \/ WhitespacePass
    \/ IsFunctionCalled
    \/ HasWhereClauseCalled

LoopNext ==
    \/ \E q \in LoopTexts : Parse(q)
    \/ \E q \in LoopTexts : ParseComplete(q)
    \/ \E name \in Loops \cup Lookaheads, text \in LoopTexts, p \in 0..MaxLoopText : Enter(name, text, p)
    \/ NextPass

\* a routine, once entered, runs on: the interpreter does not stop between
\* two statements
LoopSpec == Init /\ [][LoopNext]_vars /\ WF_vars(NextPass)

-----------------------------------------------------------------------------
(* Properties                                                              *)

\* structural equality of ASTs: objects are compared key by key, a key whose
\* value is undefined counting as absent
RECURSIVE CanonExpr(_)
CanonExpr(e) ==
    IF e.type = "query"
    THEN [type |-> "query", field |-> e.field, operator |-> e.operator, value |-> e.value]
    ELSE IF e.type = "not" THEN Not(CanonExpr(e.expression))
    ELSE Logical(e.type, CanonExpr(e.left), CanonExpr(e.right))
CanonAst(ast) == [ast EXCEPT !.where = IF @ = Undefined THEN @ ELSE CanonExpr(@)]
StructEq(a, b) == CanonAst(a) = CanonAst(b)

\* the expression a parse call returned: parse returns it, parseComplete
\* returns it as the where part
WhereOf(o) == IF op = "parse" THEN o.ast ELSE o.ast.where
ParserCalled == op \in {"parse", "parseComplete"}

\* C1: round trip from an AST.  For every programmatically built
\* CompleteQueryAST q, parseKintoneQueryComplete(astToQuery(q)) succeeds and
\* returns an AST structurally equal to q.
C1_RoundTripFromAST ==
    (op = "reparse" /\ built.from = "ast")
    => /\ regenerated.reparsed.kind = "ast"
       /\ StructEq(regenerated.reparsed.ast, built.ast)

\* a built query whose where part is a Negation is serialized and the
\* parser then throws on the serialized text
C1_NegationRejected ==
    /\ op = "reparse"
    /\ built.from = "ast"
    /\ built.ast = CompleteQueryAST(Not(Pred(FieldA, OpEq, Num(1))), Undefined, Undefined, Undefined)
    /\ regenerated.text = KwNot \o <<" ">> \o PEq
    /\ regenerated.reparsed.kind = "error"

\* C2: round trip from text is stable.  For every text t the parser accepts,
\* c = astToQuery(parse(t)) is accepted, parse(c) is structurally equal to
\* parse(t), and astToQuery(parse(c)) = c.
C2_RoundTripFromText ==
    (op = "reparse" /\ built.from = "text")
    => /\ regenerated.reparsed.kind = "ast"
       /\ StructEq(regenerated.reparsed.ast, outcome.ast)
       /\ astToQuery(regenerated.reparsed.ast) = regenerated.text

\* the accepted text `B <= FROM_TODAY(5, "DAYS")` is regenerated with the
\* unit bare, and the parser throws on the regenerated text
C2_UnitRejected ==
    /\ op = "reparse"
    /\ built.from = "text"
    /\ query = PLe
    /\ outcome.kind = "ast"
    /\ regenerated.reparsed.kind = "error"
    /\ regenerated.reparsed.err = "Expected value"

\* no `and` node has an `or` node as a direct child
RECURSIVE NoOrUnderAnd(_)
NoOrUnderAnd(e) ==
    IF e.type = "query" THEN TRUE
    ELSE /\ e.type = "and" => (e.left.type # "or" /\ e.right.type # "or")
         /\ NoOrUnderAnd(e.left)
         /\ NoOrUnderAnd(e.right)

\* the AST of a single predicate text of the corpus
PredOf(text) == parse(text).ast

\* C3: precedence.  For predicates A, B, C the text `A or B and C` parses to
\* Or(A, And(B, C)) and `A and B or C` to Or(And(A, B), C); in the AST of a
\* text without parentheses no `and` has an `or` as a direct child.
C3_Precedence ==
    ParserCalled =>
        /\ \A a \in ChainPreds, b \in ChainPreds, c \in ChainPreds :
              /\ query = a \o SepOr \o b \o SepAnd \o c
                    => /\ outcome.kind = "ast"
                       /\ WhereOf(outcome) =
                             Logical("or", PredOf(a), Logical("and", PredOf(b), PredOf(c)))
              /\ query = a \o SepAnd \o b \o SepOr \o c
                    => /\ outcome.kind = "ast"
                       /\ WhereOf(outcome) =
                             Logical("or", Logical("and", PredOf(a), PredOf(b)), PredOf(c))
        /\ query \in ChainTexts => (outcome.kind = "ast" /\ NoOrUnderAnd(WhereOf(outcome)))

\* `A = 1 or B is empty and C in ("a", 2)` was parsed: the root is the `or`
\* and its right operand the `and`
C3_Witness ==
    /\ op = "parse"
    /\ query = PEq \o SepOr \o PIsEmpty \o SepAnd \o PIn
    /\ outcome.kind = "ast"
    /\ outcome.ast.type = "or"
    /\ outcome.ast.left = Pred(FieldA, OpEq, Num(1))
    /\ outcome.ast.right.type = "and"
    /\ outcome.ast.right.left = Pred(FieldB, OpIsEmpty, Undefined)

\* a limit / an offset the kintone API allows
InLimitRange(n) == n.e = 0 /\ ~n.neg /\ n.m >= 1 /\ n.m <= 500
InOffsetRange(n) == n.e = 0 /\ ~n.neg /\ n.m <= 10000

\* the call returned an AST when b holds, and threw (no AST) otherwise
AcceptedIff(b) ==
    IF b THEN outcome.kind = "ast"
    ELSE outcome.kind = "error" /\ outcome.ast = Undefined

\* C4: pagination bounds on parse.  parseKintoneQueryComplete accepts
\* `limit n` iff n is an integer with 1 <= n <= 500 and `offset n` iff n is
\* an integer with 0 <= n <= 10000; for any other number the parse fails
\* with an error and no AST is returned.
C4_PaginationBounds ==
    op = "parseComplete" =>
        \A pre \in PagePrefixes, n \in PageNums :
            /\ query = LimitOnly(pre, n)
                  => /\ AcceptedIff(InLimitRange(n))
                     /\ outcome.kind = "ast" => outcome.ast.limit = n
            /\ query = OffsetOnly(pre, n)
                  => /\ AcceptedIff(InOffsetRange(n))
                     /\ outcome.kind = "ast" => outcome.ast.offset = n
            /\ \A m \in PageNums :
                  query = LimitOffset(pre, n, m)
                  => AcceptedIff(InLimitRange(n) /\ InOffsetRange(m))

\* `A = 1 limit 500 offset 10001` was parsed: the limit is the largest one
\* accepted, the offset is one above the largest, the parse threw
C4_Witness ==
    /\ op = "parseComplete"
    /\ query = LimitOffset(PrefixA, Num(500), Num(10001))
    /\ outcome.kind = "error"
    /\ outcome.err = "OFFSET must be an integer between 0 and 10000"

\* C5: keyword prefixes.  `OrderItems.Quantity > 10` parses to the single
\* predicate (OrderItems.Quantity, >, 10) through parse and as the where part
\* of parseComplete; a predicate whose field name merely begins with the
\* letters of order, limit or offset is parsed as a predicate.
C5_KeywordPrefixes ==
    ParserCalled =>
        /\ query = PSubtable
              => /\ outcome.kind = "ast"
                 /\ WhereOf(outcome) = Pred(FieldSub, OpGt, Num(10))
        /\ query \in {POrderNo, PLimitField, POffsets}
              => /\ outcome.kind = "ast"
                 /\ WhereOf(outcome).type = "query"

\* parseComplete threw on `OrderItems.Quantity > 10` without consuming a
\* character
C5_SubtableRejected ==
    /\ op = "parseComplete"
    /\ query = PSubtable
    /\ outcome.kind = "error"
    /\ outcome.err = "Unexpected characters"
    /\ pos = 0

\* C6: converter setters change only their target.  For a converter c of a
\* valid text and a valid argument, setLimit, setOffset and setOrderBy return
\* a non-null converter whose AST equals c.ast except for the clause set, and
\* transformQuery with a transformer that sets limit/offset returns a
\* non-null text with the same predicate.
C6_SettersChangeOnlyTarget ==
    /\ (op = "setLimit" /\ InLimitRange(derived.arg))
          => /\ derived.result.t = "converter"
             /\ StructEq(derived.result.ast, [conv.ast EXCEPT !.limit = derived.arg])
    /\ (op = "setOffset" /\ InOffsetRange(derived.arg))
          => /\ derived.result.t = "converter"
             /\ StructEq(derived.result.ast, [conv.ast EXCEPT !.offset = derived.arg])
    /\ (op = "setOrderBy" /\ derived.arg # Undefined /\ derived.arg.items # <<>>)
          => /\ derived.result.t = "converter"
             /\ StructEq(derived.result.ast, [conv.ast EXCEPT !.orderBy = derived.arg])
    /\ (op = "transformQuery" /\ queryConverter(query) # JsNull)
          => /\ derived.result # JsNull
             /\ CanonAst(parseComplete(derived.result.s).ast).where
                   = CanonAst(parseComplete(query).ast).where

\* setLimit(25) on the converter of `B is empty` returned a converter whose
\* AST has no where part
C6_IsEmptyLost ==
    /\ op = "setLimit"
    /\ query = PIsEmpty
    /\ conv.ast.where = Pred(FieldB, OpIsEmpty, Undefined)
    /\ derived.arg = Num(25)
    /\ derived.result.t = "converter"
    /\ derived.result.ast.where = Undefined

\* C7: trailing input is never dropped.  Whenever parse or parseComplete
\* returns an AST the cursor offset equals the length of the trimmed input;
\* when a non-whitespace suffix remains after the grammar is consumed the
\* call fails with 'Unexpected characters'.
C7_TrailingInputNeverDropped ==
    ParserCalled =>
        /\ input = Trim(query)
        /\ outcome.kind = "ast" => pos = Len(input)
        /\ query \in TrailingTexts
              => /\ outcome.kind = "error"
                 /\ outcome.err = "Unexpected characters"
                 /\ pos < Len(input)

\* the complete query followed by ` garbage` was parsed: the call threw with
\* the cursor on the first leftover character
C7_Witness ==
    /\ op = "parseComplete"
    /\ query = FullQuery \o TrailWord
    /\ outcome.kind = "error"
    /\ outcome.err = "Unexpected characters"
    /\ pos = Len(FullQuery) + 1
    /\ peek(input, pos) = "g"

\* a complete expression: every node is a predicate with a field name, one
\* of the operators and (unless the operator is an emptiness test) a value,
\* or an and/or node over two complete expressions
RECURSIVE CompleteExpr(_)
CompleteExpr(e) ==
    IF e.type = "query"
    THEN /\ e.field # <<>>
         /\ e.operator \in KintoneOperators
         /\ e.operator \notin {OpIsEmpty, OpIsNotEmpty} => e.value # Undefined
    ELSE /\ e.type \in {"and", "or"}
         /\ CompleteExpr(e.left)
         /\ CompleteExpr(e.right)

\* C8: no partial success.  A parse call either returns a complete AST or
\* fails without returning any AST (unterminated string, unclosed
\* parenthesis, missing operator, missing value, missing `by`, non-numeric
\* limit/offset all fail); queryConverter, transformQuery and
\* extractQueryComponents return null for every text on which the parser
\* fails.
C8_NoPartialSuccess ==
    /\ ParserCalled =>
          /\ outcome.kind \in {"ast", "null", "error"}
          /\ outcome.kind = "null" <=> Trim(query) = <<>>
          /\ outcome.kind # "ast" => outcome.ast = Undefined
          /\ (outcome.kind = "ast" /\ WhereOf(outcome) # Undefined) => CompleteExpr(WhereOf(outcome))
          /\ query \in MalformedTexts => outcome.kind = "error"
    /\ (op = "queryConverter" /\ parseComplete(query).kind # "ast") => conv = JsNull
    /\ (op \in {"transformQuery", "extractQueryComponents"} /\ parseComplete(query).kind # "ast")
          => derived.result = JsNull

\* parseComplete threw on the unterminated string `A = "x` at the end of the
\* input and returned no AST
C8_Witness ==
    /\ op = "parseComplete"
    /\ query = BadUnterminated
    /\ outcome.kind = "error"
    /\ outcome.err = "Expected literal"
    /\ outcome.ast = Undefined
    /\ pos = Len(input)

\* C9: escaping round trip.  For every string s over an alphabet with the
\* double quote and the backslash, parsing the literal "escapeValue(s)"
\* yields exactly s, and the literal ends at its last character: no
\* character of s terminates it early.
C9_EscapeRoundTrip ==
    (op = "reparse" /\ built.from = "string")
    => /\ regenerated.text = EqPrefix \o Quoted(escapeValue(built.s))
       /\ regenerated.reparsed.kind = "ast"
       /\ regenerated.reparsed.ast.where = Pred(FieldA, OpEq, Str(built.s))
       /\ ScanString(regenerated.text, Len(EqPrefix) + 1) = Len(regenerated.text) - 1
       /\ pos = Len(regenerated.text)

\* the string \"a\ (backslash, quote, letter, backslash) was escaped, put
\* between quotes and parsed back
C9_Witness ==
    /\ op = "reparse"
    /\ built.from = "string"
    /\ built.s = <<"\\", "\"", "a", "\\">>
    /\ regenerated.text = EqPrefix \o <<"\"", "\\", "\\", "\\", "\"", "a", "\\", "\\", "\"">>
    /\ regenerated.reparsed.kind = "ast"
    /\ regenerated.reparsed.ast.where.value = Str(built.s)

\* the operator-shape rule on one predicate
HasShape(e) ==
    /\ e.operator \in {OpIsEmpty, OpIsNotEmpty} => e.value = Undefined
    /\ e.operator \in {OpIn, OpNotIn} => e.value.t \in {"array", "function"}
    /\ e.operator \in {OpLike, OpNotLike} => e.value.t = "string"

\* the number of predicates of an expression that break the rule
RECURSIVE ShapeViolations(_)
ShapeViolations(e) ==
    IF e.type = "query" THEN (IF HasShape(e) THEN 0 ELSE 1)
    ELSE ShapeViolations(e.left) + ShapeViolations(e.right)

\* every `is empty` / `is not empty` predicate of an expression has no value
RECURSIVE EmptinessWithoutValue(_)
EmptinessWithoutValue(e) ==
    IF e.type = "query" THEN e.operator \in {OpIsEmpty, OpIsNotEmpty} => e.value = Undefined
    ELSE EmptinessWithoutValue(e.left) /\ EmptinessWithoutValue(e.right)

ParserReturnedWhere == ParserCalled /\ outcome.kind = "ast" /\ WhereOf(outcome) # Undefined

\* C10 as stated: in every AST returned by the parser each predicate
\* satisfies the operator-shape rule.
C10_OperatorShape == ParserReturnedWhere => ShapeViolations(WhereOf(outcome)) = 0

\* C10: operator shape of parsed ASTs.  In every AST returned by the parser
\* each `is empty` / `is not empty` predicate carries no value, and the
\* predicates that break the rule for in / not in / like / not like are
\* exactly the ones reported: their number is the number of validation
\* warnings the call wrote.
C10_OperatorShapeOrWarned ==
    ParserReturnedWhere =>
        /\ EmptinessWithoutValue(WhereOf(outcome))
        /\ ShapeViolations(WhereOf(outcome)) = warnings

\* `A in 5 or A = 1 and A in 5` was parsed: the AST is returned with both
\* scalar `in` predicates in it and two warnings were written
C10_Witness ==
    /\ op = "parse"
    /\ query = PInScalar \o SepOr \o PEq \o SepAnd \o PInScalar
    /\ outcome.kind = "ast"
    /\ outcome.ast.left = Pred(FieldA, OpIn, Num(5))
    /\ outcome.ast.right.right = Pred(FieldA, OpIn, Num(5))
    /\ warnings = 2

\* the predicates of an expression, left to right
RECURSIVE Leaves(_)
Leaves(e) ==
    IF e.type = "query" THEN <<e>>
    ELSE IF e.type = "not" THEN Leaves(e.expression)
    ELSE Leaves(e.left) \o Leaves(e.right)

\* the predicate written by each text of ChainPreds and by `B like 7`, and
\* whether it breaks the operator-shape rule
WrittenPred(text) ==
    IF text = PEq THEN Pred(FieldA, OpEq, Num(1))
    ELSE IF text = PIsEmpty THEN Pred(FieldB, OpIsEmpty, Undefined)
    ELSE IF text = PIn THEN Pred(FieldC, OpIn, Arr(<<Str(<<"a">>), Num(2)>>))
    ELSE IF text = PLike THEN Pred(<<"D">>, OpLike, Str(<<"a", "%">>))
    ELSE IF text = PInScalar THEN Pred(FieldA, OpIn, Num(5))
    ELSE Pred(FieldB, OpLike, Num(7))
Malformed(text) == IF text \in {PInScalar, PLikeNumber} THEN 1 ELSE 0

\* C11: warn-and-accept validation.  When a predicate breaks the
\* operator-shape rule (`in` with a scalar, `like` with a number) the parse
\* still succeeds, the predicate is returned with field, operator and value
\* as written, the predicates around it are parsed as usual, and exactly one
\* warning per such predicate is written to the sink.
C11_WarnAndAccept ==
    ParserCalled =>
        /\ query \in {PInScalar, PLikeNumber}
              => /\ outcome.kind = "ast"
                 /\ WhereOf(outcome) = WrittenPred(query)
                 /\ warnings = 1
        /\ \A a \in ChainPreds, b \in ChainPreds, s \in Connectives :
              query = a \o s \o b
              => /\ outcome.kind = "ast"
                 /\ Leaves(WhereOf(outcome)) = <<WrittenPred(a), WrittenPred(b)>>
                 /\ warnings = Malformed(a) + Malformed(b)
        /\ \A a \in ChainPreds, b \in ChainPreds, c \in ChainPreds, s \in Connectives, t \in Connectives :
              query = a \o s \o b \o t \o c
              => /\ outcome.kind = "ast"
                 /\ Leaves(WhereOf(outcome)) = <<WrittenPred(a), WrittenPred(b), WrittenPred(c)>>
                 /\ warnings = Malformed(a) + Malformed(b) + Malformed(c)

\* `A in 5 and A = 1` was parsed: one warning was written, the parse went on
\* to the second predicate and returned both
C11_Witness ==
    /\ op = "parseComplete"
    /\ query = PInScalar \o SepAnd \o PEq
    /\ outcome.kind = "ast"
    /\ outcome.ast.where = Logical("and", Pred(FieldA, OpIn, Num(5)), Pred(FieldA, OpEq, Num(1)))
    /\ warnings = 1
    /\ pos = Len(input)

\* the AST astToQuery was called with
Serialized == IF built.from = "ast" THEN built.ast ELSE outcome.ast

\* the sort clauses `f1 d1, f2 d2, ...`
RECURSIVE SortList(_)
SortList(items) ==
    IF Len(items) = 1 THEN items[1].field \o <<" ">> \o items[1].direction
    ELSE items[1].field \o <<" ">> \o items[1].direction \o <<",", " ">> \o SortList(Tail(items))

\* the text of each part of a query, empty when the part is absent
PredicateSlot(ast) == IF ast.where = Undefined THEN <<>> ELSE expressionToString(ast.where)
OrderBySlot(ast) ==
    IF ast.orderBy = Undefined \/ ast.orderBy.items = <<>> THEN <<>>
    ELSE <<"o", "r", "d", "e", "r", " ", "b", "y", " ">> \o SortList([i \in 1..Len(ast.orderBy.items) |->
             [field |-> ast.orderBy.items[i].field,
              direction |-> IF ast.orderBy.items[i].direction = "asc" THEN <<"a", "s", "c">> ELSE <<"d", "e", "s", "c">>]])
LimitSlot(ast) == IF ast.limit = Undefined THEN <<>> ELSE <<"l", "i", "m", "i", "t", " ">> \o NumberToString(ast.limit)
OffsetSlot(ast) == IF ast.offset = Undefined THEN <<>> ELSE <<"o", "f", "f", "s", "e", "t", " ">> \o NumberToString(ast.offset)

\* a \o " " \o b, without the space when either side is empty
Spaced(a, b) == IF a = <<>> THEN b ELSE IF b = <<>> THEN a ELSE a \o <<" ">> \o b

\* C12: serializer clause order and omission.  astToQuery emits the parts
\* that are present in the order predicate, `order by f1 d1, f2 d2, ...`,
\* `limit n`, `offset n`, joined by single spaces; an absent part and an
\* empty orderBy list emit nothing, and the AST with no part serializes to
\* the empty string.
C12_ClauseOrderAndOmission ==
    op = "astToQuery" =>
        /\ regenerated.text =
              Spaced(PredicateSlot(Serialized),
                     Spaced(OrderBySlot(Serialized), Spaced(LimitSlot(Serialized), OffsetSlot(Serialized))))
        /\ (Serialized.where = Undefined /\ Serialized.limit = Undefined /\ Serialized.offset = Undefined
            /\ (Serialized.orderBy = Undefined \/ Serialized.orderBy.items = <<>>))
              => regenerated.text = <<>>
        /\ regenerated.text # <<>> => (Head(regenerated.text) # " " /\ regenerated.text[Len(regenerated.text)] # " ")

\* an AST with a predicate, an empty orderBy list and a limit but no offset
\* was serialized: the text is the predicate and the limit
C12_Witness ==
    /\ op = "astToQuery"
    /\ built.from = "ast"
    /\ built.ast = CompleteQueryAST(Pred(FieldA, OpEq, Num(1)), Arr(<<>>), Num(5), Undefined)
    /\ regenerated.text = PEq \o <<" ", "l", "i", "m", "i", "t", " ", "5">>

\* the position of each clause in the grammar, and the sequences that follow
\* it: predicate, order by, limit, offset, each at most once
Rank(k) == IF k = "where" THEN 1 ELSE IF k = "orderBy" THEN 2 ELSE IF k = "limit" THEN 3 ELSE 4
InGrammarOrder(ks) == \A i \in 1..(Len(ks) - 1) : Rank(ks[i]) < Rank(ks[i + 1])
Has(ks, k) == \E i \in 1..Len(ks) : ks[i] = k
WrittenAst(ks) ==
    CompleteQueryAST(IF Has(ks, "where") THEN Pred(FieldA, OpEq, Num(1)) ELSE Undefined,
                     IF Has(ks, "orderBy") THEN Arr(<<OrderByClause(FieldA, "desc")>>) ELSE Undefined,
                     IF Has(ks, "limit") THEN Num(5) ELSE Undefined,
                     IF Has(ks, "offset") THEN Num(2) ELSE Undefined)

\* C13: clause order on parse.  parseComplete accepts the clauses only in
\* the order predicate, order by, limit, offset, each at most once: a text
\* whose clauses follow that order yields the AST with exactly those clauses,
\* and a text in which a clause comes after a later one or comes twice is
\* rejected with an error and no AST.
C13_ClauseOrderOnParse ==
    op = "parseComplete" =>
        \A ks \in ClauseSeqs :
            query = SeqText(ks)
            => IF InGrammarOrder(ks)
               THEN outcome.kind = "ast" /\ outcome.ast = WrittenAst(ks)
               ELSE outcome.kind = "error" /\ outcome.ast = Undefined

\* `offset 2 limit 5` was parsed: the offset was read and the call threw on
\* the limit clause left over after it
C13_Witness ==
    /\ op = "parseComplete"
    /\ query = SeqText(<<"offset", "limit">>)
    /\ outcome.kind = "error"
    /\ outcome.err = "Unexpected characters"
    /\ pos = Len(OffsetText) + 2
    /\ peek(input, pos) = "l"

\* ((P1 op P2) op P3) ... over the predicates of a sequence
RECURSIVE LeftNested(_, _)
LeftNested(type, preds) ==
    IF Len(preds) = 1 THEN preds[1]
    ELSE Logical(type, LeftNested(type, SubSeq(preds, 1, Len(preds) - 1)), preds[Len(preds)])
ConnectiveType(sep) == IF sep = SepAnd THEN "and" ELSE "or"

\* the number of and/or nodes of an expression
RECURSIVE BinaryNodes(_)
BinaryNodes(e) == IF e.type = "query" THEN 0 ELSE 1 + BinaryNodes(e.left) + BinaryNodes(e.right)

\* C14: left associativity.  A chain of N predicates joined by the same
\* connective without parentheses parses to N-1 binary nodes nested to the
\* left, ((P1 op P2) op P3) ..., with the predicates in input order.
C14_LeftAssociativity ==
    ParserCalled =>
        \A k \in RunStarts, n \in RunLengths, sep \in Connectives :
            query = RunText(k, n, sep)
            => /\ outcome.kind = "ast"
               /\ WhereOf(outcome) = LeftNested(ConnectiveType(sep), [i \in 1..n |-> WrittenPred(Run(k, n)[i])])
               /\ BinaryNodes(WhereOf(outcome)) = n - 1
               /\ Leaves(WhereOf(outcome)) = [i \in 1..n |-> WrittenPred(Run(k, n)[i])]

\* `B is empty and C in ("a", 2) and D like "a%" and A in 5` was parsed: the
\* root joins the first three predicates with the fourth, and its left
\* operand joins the first two with the third
C14_Witness ==
    /\ op = "parse"
    /\ query = RunText(1, 4, SepAnd)
    /\ outcome.kind = "ast"
    /\ outcome.ast.type = "and"
    /\ outcome.ast.right = Pred(FieldA, OpIn, Num(5))
    /\ outcome.ast.left.type = "and"
    /\ outcome.ast.left.right = Pred(<<"D">>, OpLike, Str(<<"a", "%">>))
    /\ outcome.ast.left.left = Logical("and", Pred(FieldB, OpIsEmpty, Undefined),
                                       Pred(FieldC, OpIn, Arr(<<Str(<<"a">>), Num(2)>>)))

\* the text t renders the expression e with every and/or node between its
\* own pair of parentheses: `(` left ` and ` right `)`
RECURSIVE Renders(_, _)
Renders(e, t) ==
    IF e.type \in {"and", "or"}
    THEN /\ Len(t) >= 2
         /\ t[1] = "("
         /\ t[Len(t)] = ")"
         /\ \E i \in 2..(Len(t) - 1) :
               LET word == <<" ">> \o (IF e.type = "and" THEN <<"a", "n", "d">> ELSE <<"o", "r">>) \o <<" ">>
               IN /\ i + Len(word) <= Len(t) - 1
                  /\ SubSeq(t, i + 1, i + Len(word)) = word
                  /\ Renders(e.left, SubSeq(t, 2, i))
                  /\ Renders(e.right, SubSeq(t, i + Len(word) + 1, Len(t) - 1))
    ELSE t = expressionToString(e)

\* the and/or nodes of the expression have only predicates of CorePreds
\* below them
RECURSIVE OverCorePreds(_)
OverCorePreds(e) ==
    IF e.type \in {"and", "or"} THEN OverCorePreds(e.left) /\ OverCorePreds(e.right)
    ELSE e \in CorePreds

WrittenArg(arg) ==
    IF arg.t = "string"
    THEN IF arg.s # <<>> /\ \A i \in 1..Len(arg.s) : arg.s[i] \in Upper \cup {"_"}
         THEN arg.s
         ELSE <<"\"">> \o escapeValue(arg.s) \o <<"\"">>
    ELSE NumberToString(arg)
RECURSIVE WrittenArgs(_)
WrittenArgs(args) ==
    IF Len(args) = 1 THEN WrittenArg(args[1])
    ELSE WrittenArg(args[1]) \o <<",", " ">> \o WrittenArgs(Tail(args))
WrittenCall(f) ==
    IF f.args = <<>> THEN f.name \o <<"(", ")">>
    ELSE f.name \o <<"(">> \o WrittenArgs(f.args) \o <<")">>

\* a built predicate whose value is a FunctionCall was serialized
CallSerialized ==
    /\ op = "astToQuery"
    /\ built.from = "ast"
    /\ built.ast.where # Undefined
    /\ built.ast.where.type = "query"
    /\ built.ast.where.value.t = "function"

\* C16 as stated: function-argument formatting.  In the text of a
\* FunctionCall a string argument made only of capitals and underscores is
\* bare, every other string argument is between double quotes with its
\* double quotes and backslashes escaped, a number is in decimal form, and a
\* call without arguments is NAME().
C16_FunctionArguments ==
    CallSerialized =>
        LET written == built.ast.where.field \o <<" ">> \o built.ast.where.operator \o <<" ">>
                       \o WrittenCall(built.ast.where.value)
        IN /\ Len(regenerated.text) >= Len(written)
           /\ SubSeq(regenerated.text, 1, Len(written)) = written

\* FROM_TODAY(1.5, 'a"b') was serialized: the argument is between quotes
\* with its own double quote left as it is
C16_QuoteUnescaped ==
    /\ op = "astToQuery"
    /\ built.from = "ast"
    /\ built.ast = CompleteQueryAST(Pred(FieldA, OpEq, Func(NameFROM_TODAY, <<Dec(15, 1), Str(StrQuote)>>)),
                                    Undefined, Undefined, Undefined)
    /\ regenerated.text = EqPrefix \o NameFROM_TODAY
                          \o <<"(", "1", ".", "5", ",", " ", "\"", "a", "\"", "b", "\"", ")">>

\* the names of the FunctionCall nodes of a value and of an expression
RECURSIVE NamesInValue(_)
NamesInValue(v) ==
    IF v.t = "function"
    THEN {v.name} \cup UNION {NamesInValue(v.args[i]) : i \in 1..Len(v.args)}
    ELSE IF v.t = "array" THEN UNION {NamesInValue(v.items[i]) : i \in 1..Len(v.items)}
    ELSE {}
RECURSIVE FunctionNames(_)
FunctionNames(e) ==
    IF e.type = "query" THEN NamesInValue(e.value)
    ELSE FunctionNames(e.left) \cup FunctionNames(e.right)

\* C17 as stated: closed function vocabulary.  Every FunctionCall node of an
\* AST returned by the parser has one of the 14 fixed function names.
C17_ClosedFunctionVocabulary ==
    ParserReturnedWhere => FunctionNames(WhereOf(outcome)) \subseteq KintoneFunctions

\* `A = FOO()` was parsed: the AST is returned, its value is a FunctionCall
\* named FOO, and no warning was written
C17_UnknownFunctionAccepted ==
    /\ op = "parse"
    /\ query = PUnknownFunction
    /\ outcome.kind = "ast"
    /\ outcome.ast = Pred(FieldA, OpEq, Func(<<"F", "O", "O">>, <<>>))
    /\ outcome.ast.value.name \notin KintoneFunctions
    /\ warnings = 0

\* a bare identifier, or two non-empty identifiers around one dot
DotsOf(path) == {i \in 1..Len(path) : path[i] = "."}
WellFormedPath(path) ==
    /\ path # <<>>
    /\ Cardinality(DotsOf(path)) <= 1
    /\ path[1] # "."
    /\ path[Len(path)] # "."

\* the field paths of an expression and of a list of sort clauses
RECURSIVE FieldPaths(_)
FieldPaths(e) ==
    IF e.type = "query" THEN {e.field}
    ELSE FieldPaths(e.left) \cup FieldPaths(e.right)
SortPaths(orderBy) ==
    IF orderBy = Undefined THEN {} ELSE {orderBy.items[i].field : i \in 1..Len(orderBy.items)}
ReturnedPaths ==
    (IF WhereOf(outcome) = Undefined THEN {} ELSE FieldPaths(WhereOf(outcome)))
    \cup (IF op = "parseComplete" THEN SortPaths(outcome.ast.orderBy) ELSE {})

\* C18 as stated: field-path shape.  Every field path of a returned AST, in
\* a predicate or in a sort clause, is a bare identifier or two non-empty
\* identifiers around one dot, and a text whose field position holds a path
\* with more than one dot, a leading or trailing dot or only dots is
\* rejected.
C18_FieldPathShape ==
    ParserCalled =>
        /\ outcome.kind = "ast" => \A path \in ReturnedPaths : WellFormedPath(path)
        /\ query \in BadPathTexts => outcome.kind = "error"

\* `a.b.c = 1` was parsed: the AST is returned with the three-segment path
\* as its field
C18_ThreeSegmentsAccepted ==
    /\ op = "parseComplete"
    /\ query = PThreeSegments
    /\ outcome.kind = "ast"
    /\ outcome.ast.where = Pred(<<"a", ".", "b", ".", "c">>, OpEq, Num(1))
    /\ pos = Len(input)

\* the text t ends with / begins with the text s
EndsWith(t, s) == Len(t) >= Len(s) /\ SubSeq(t, Len(t) - Len(s) + 1, Len(t)) = s
BeginsWith(t, s) == Len(t) >= Len(s) /\ SubSeq(t, 1, Len(s)) = s

\* the limit and the offset stored in the builder are absent or in range
StoredPaginationInRange ==
    /\ options.limit = Undefined \/ InLimitRange(options.limit)
    /\ options.offset = Undefined \/ InOffsetRange(options.offset)

\* C19: QueryBuilder pagination invariant.  After any sequence of limit(),
\* offset(), orderBy() and orderByMany() calls on one builder the stored
\* limit is absent or an integer in 1..500 and the stored offset is absent or
\* an integer in 0..10000; limit() and offset() throw exactly on the
\* arguments outside these ranges, a call that throws leaves the stored
\* limit, offset and sort clauses as they were, and the text build() returns
\* ends with the stored limit and offset and no others.
C19_BuilderPagination ==
    /\ [](op = "builder" =>
            /\ StoredPaginationInRange
            /\ call.name = "limit" => (call.threw <=> ~InLimitRange(call.arg))
            /\ call.name = "offset" => (call.threw <=> ~InOffsetRange(call.arg))
            /\ (call.name = "limit" /\ ~call.threw) => options.limit = call.arg
            /\ (call.name = "offset" /\ ~call.threw) => options.offset = call.arg
            /\ call.name = "build" =>
                  /\ EndsWith(call.text.text, Spaced(LimitSlot(options), OffsetSlot(options)))
                  /\ options.limit = Undefined
                        => \A i \in 1..Len(call.text.text) : ~BeginsWith(SubSeq(call.text.text, i, Len(call.text.text)), LimitText)
                  /\ options.offset = Undefined
                        => \A i \in 1..Len(call.text.text) : ~BeginsWith(SubSeq(call.text.text, i, Len(call.text.text)), OffsetText))
    /\ [][(op' = "builder" /\ call'.threw) => options' = options]_vars

\* limit(500), offset(0), then limit(50.5) threw: the limit stored is still
\* 500 and the offset 0
C19_Witness ==
    /\ op = "builder"
    /\ call.name = "limit"
    /\ call.arg = Dec(505, 1)
    /\ call.threw
    /\ options.limit = Num(500)
    /\ options.offset = Num(0)
    /\ ncalls = 3

\* the sort clauses stored in the builder, in order
Clauses(opts) ==
    IF opts.orderBy = Undefined THEN <<>>
    ELSE IF opts.orderBy.t = "array" THEN opts.orderBy.items
    ELSE <<opts.orderBy.clause>>

\* C20: QueryBuilder sort accumulation.  Each orderBy(field, direction)
\* appends one clause after the clauses stored (asc when the direction is
\* left out), each orderByMany(list) replaces the stored clauses by the
\* list, limit(), offset() and build() leave them alone, and build() renders
\* the stored clauses in that order as one comma-separated `order by`
\* clause at the head of the text (what it writes when sort calls have left
\* no clause stored is C28's subject).
C20_BuilderSortAccumulation ==
    /\ [][op' = "builder" =>
            /\ call'.name = "orderBy"
                  => Clauses(options') =
                        Append(Clauses(options),
                               [field |-> call'.arg.field,
                                direction |-> IF call'.arg.direction = "desc" THEN "desc" ELSE "asc"])
            /\ call'.name = "orderByMany" => Clauses(options') = call'.arg
            /\ call'.name \in {"limit", "offset", "build"} => Clauses(options') = Clauses(options)]_vars
    /\ [](op = "builder" /\ call.name = "build" =>
            /\ Clauses(options) # <<>>
                  => call.text.text =
                        Spaced(OrderBySlot([orderBy |-> Arr(Clauses(options))]),
                               Spaced(LimitSlot(options), OffsetSlot(options)))
            /\ Clauses(options) # <<>> => BeginsWith(call.text.text, OrderByText)
            /\ options.orderBy = Undefined => ~BeginsWith(call.text.text, <<"o", "r", "d", "e", "r">>))

\* orderByMany([B desc, OrderItems.Quantity asc]), orderBy(A), orderBy(B,
\* desc), then build(): the four clauses are rendered in that order
C20_Witness ==
    /\ op = "builder"
    /\ call.name = "build"
    /\ Clauses(options) = <<OrderByClause(FieldB, "desc"), OrderByClause(FieldSub, "asc"),
                            OrderByClause(FieldA, "asc"), OrderByClause(FieldB, "desc")>>
    /\ call.text.text = OrderByText \o FieldB \o <<" ">> \o KwDesc \o <<",", " ">> \o FieldSub \o <<" ">> \o KwAsc
                        \o <<",", " ">> \o FieldA \o <<" ">> \o KwAsc \o <<",", " ">> \o FieldB \o <<" ">> \o KwDesc

-----------------------------------------------------------------------------
(* C21: copy-on-modify                                                     *)

\* the methods of the claim
CopyingMethods == {"modify", "setWhere", "setOrderBy", "setLimit", "setOffset"}

\* C21: modify, setWhere, setOrderBy, setLimit and setOffset never mutate the
\* converter they are called on. After any sequence of such calls on the
\* converter c built from a text, c.ast and c.originalQuery are still what
\* queryConverter built from that text and c.toQuery() is still the
\* serialization of that AST, whatever the callback assigned on the AST it was
\* handed; no call changes the receiver; and the AST object of a derived
\* converter is a new object, distinct from c's and from the AST object of
\* every converter derived earlier.
C21_CopyOnModify ==
    /\ [](op \in CopyingMethods =>
            /\ conv = Held(queryConverter(query), 1)
            /\ conv.originalQuery = query
            /\ toQuery(conv) = astToQuery(parseComplete(query).ast)
            /\ derived.result.t = "converter" =>
                    /\ derived.result.obj # conv.obj
                    /\ derived.result.obj = allocs)
    /\ [][op' \in CopyingMethods =>
            /\ conv' = conv
            /\ derived'.result.t = "converter" /\ op \in CopyingMethods /\ derived.result.t = "converter"
                    => derived'.result.obj > derived.result.obj]_vars

\* a second call on the same converter has returned a converter whose AST
\* differs from the receiver's, after a first call that did so too
C21_Witness ==
    /\ op = "modify"
    /\ allocs = 5
    /\ derived.arg.key = "where.field"
    /\ derived.result.t = "converter"
    /\ derived.result.ast # conv.ast
    /\ derived.result.ast.where.field = FieldB
    /\ conv.ast.where.field = FieldA

-----------------------------------------------------------------------------
(* C22, C23: combineQueries                                                *)

\* the parser's results for the queries of the list handed to combineQueries
CombinedParses == [i \in 1..Len(derived.arg) |-> parseComplete(derived.arg[i])]

\* some query of the list makes the parser throw
SomeUnparseable == \E i \in 1..Len(derived.arg) : CombinedParses[i].kind = "error"

\* C22: combineQueries returns null whenever some query of the list fails to
\* parse, whatever the length of the list, a single invalid query included.
C22_NullOnUnparseable ==
    op = "combineQueries" /\ SomeUnparseable => derived.result = JsNull

\* a list holding one invalid query comes back as that text
C22_SingleInvalidReturned ==
    /\ op = "combineQueries"
    /\ derived.arg = <<BadNoValue>>
    /\ parseComplete(BadNoValue).kind = "error"
    /\ derived.result = Str(BadNoValue)

\* w1 and w2 and ... nested to the left
RECURSIVE AndChain(_)
AndChain(ws) ==
    IF Len(ws) = 1 THEN ws[1]
    ELSE Logical("and", AndChain(SubSeq(ws, 1, Len(ws) - 1)), ws[Len(ws)])

\* the where predicates of the parsed queries that have one, in input order
RECURSIVE WheresFrom(_, _)
WheresFrom(parses, i) ==
    IF i > Len(parses) THEN <<>>
    ELSE IF parses[i].ast.where = Undefined THEN WheresFrom(parses, i + 1)
    ELSE <<parses[i].ast.where>> \o WheresFrom(parses, i + 1)

\* the word stands somewhere in the text
Occurs(text, word) ==
    \E i \in 1..(Len(text) - Len(word) + 1) : SubSeq(text, i, i + Len(word) - 1) = word

\* the text of a where-only query
WhereOnlyText(ws) ==
    IF ws = <<>> THEN <<>>
    ELSE astToQuery(CompleteQueryAST(AndChain(ws), Undefined, Undefined, Undefined))

\* C23: for a list of two or more queries that all parse, combineQueries
\* returns the serialization of the where predicates of the queries that have
\* one, in input order, joined by `and` nested to the left; queries without a
\* where part add nothing, order by / limit / offset are dropped, and the
\* result is the empty string when no query has a where part.
C23_CombineFold ==
    op = "combineQueries" /\ Len(derived.arg) >= 2
        /\ (\A i \in 1..Len(derived.arg) : CombinedParses[i].kind = "ast")
    => /\ derived.result = Str(WhereOnlyText(WheresFrom(CombinedParses, 1)))
       /\ ~Occurs(derived.result.s, OrderByText)
       /\ ~Occurs(derived.result.s, LimitText)
       /\ ~Occurs(derived.result.s, OffsetText)

\* three queries with a where part and clauses to drop have been combined
C23_Witness ==
    /\ op = "combineQueries"
    /\ derived.arg = <<FullQuery, PEq \o SepOr \o PNe, PNe>>
    /\ derived.result = Str(<<"(", "(">> \o PEq \o SepAnd \o <<"(">> \o PEq \o SepOr \o PNe
                            \o <<")", ")">> \o SepAnd \o PNe \o <<")">>)

\* queries without a where part have been combined into the empty string
C23_WitnessNoWhere ==
    /\ op = "combineQueries"
    /\ derived.arg = <<OrderADesc, LimitOnly(<<>>, Num(5))>>
    /\ derived.result = Str(<<>>)

-----------------------------------------------------------------------------
(* C24: operator lexing                                                    *)

\* C24: operator lexing is longest-match.  For every operator o of the 12,
\* the text `A o V` (no V for `is empty` and `is not empty`), and for the six
\* symbols also the text written without blanks, parses to the FieldPredicate
\* on A whose operator is exactly o and whose value is V: `not in` is not
\* read as `not` then `in`, nor `>=` as `>` before a value starting with `=`.
C24_LongestMatch ==
    ParserCalled =>
        \A o \in KintoneOperators :
            query \in {OperatorText(o)} \cup (IF o \in SymbolOperators THEN {TightText(o)} ELSE {})
            => /\ outcome.kind = "ast"
               /\ WhereOf(outcome) = Pred(FieldA, o, OperandValue(o))

\* `A not in (1)` has been parsed to a predicate whose operator is `not in`
C24_Witness ==
    /\ op = "parse"
    /\ query = <<"A", " ", "n", "o", "t", " ", "i", "n", " ", "(", "1", ")">>
    /\ outcome.kind = "ast"
    /\ outcome.ast = Pred(FieldA, OpNotIn, Arr(<<Num(1)>>))

-----------------------------------------------------------------------------
(* C25: keyword boundary                                                   *)

\* the first offset from p on that holds no whitespace (the end if none)
FirstNonSpace(inp, p) ==
    LET stops == {k \in p..Len(inp) : k = Len(inp) \/ ~IsSpace(inp[k + 1])}
    IN CHOOSE k \in stops : \A j \in stops : k <= j

\* the word stands at offset k of the text and a word boundary follows it
StandsAt(inp, k, word) ==
    /\ k + Len(word) <= Len(inp)
    /\ SubSeq(inp, k + 1, k + Len(word)) = word
    /\ \/ k + Len(word) = Len(inp)
       \/ IsSpace(inp[k + Len(word) + 1])
       \/ inp[k + Len(word) + 1] \in {"(", ")", "=", "!", "<", ">", ","}

-----------------------------------------------------------------------------
(* C26: extractQueryComponents                                             *)

\* C26: component flags agree with component values.  For every text
\* extractQueryComponents accepts, hasWhere holds iff whereQuery is non-null,
\* hasOrderBy iff orderBy is non-null, hasLimit iff limit is non-null,
\* hasOffset iff offset is non-null, sortFieldCount is the number of sort
\* clauses, and the reported limit and offset are the in-range values
\* written in the text.
C26_FlagsAgree ==
    op = "extractQueryComponents" /\ derived.result # JsNull =>
        /\ derived.result.hasWhere <=> derived.result.whereQuery # JsNull
        /\ derived.result.hasOrderBy <=> derived.result.orderBy # JsNull
        /\ derived.result.hasLimit <=> derived.result.limit # JsNull
        /\ derived.result.hasOffset <=> derived.result.offset # JsNull
        /\ derived.result.sortFieldCount =
               (IF derived.result.orderBy = JsNull THEN 0 ELSE Len(derived.result.orderBy.items))
        /\ query = FullQuery => derived.result.limit = Num(5) /\ derived.result.offset = Num(2)
        /\ query = LimitOnly(<<>>, Num(5)) => derived.result.limit = Num(5)
        /\ query = OffsetOnly(PrefixA, Num(0)) => derived.result.offset = Num(0)

\* `A = 1 offset 0` is accepted with hasOffset set and the offset reported null
C26_OffsetZeroLost ==
    /\ op = "extractQueryComponents"
    /\ query = <<"A", " ", "=", " ", "1", " ", "o", "f", "f", "s", "e", "t", " ", "0">>
    /\ derived.result # JsNull
    /\ derived.result.hasOffset
    /\ derived.result.offset = JsNull

\* the clauses C26 does state correctly hold: everything but the offset of 0
C26_FlagsAgreeButZero ==
    op = "extractQueryComponents" /\ derived.result # JsNull =>
        /\ derived.result.hasWhere <=> derived.result.whereQuery # JsNull
        /\ derived.result.hasOrderBy <=> derived.result.orderBy # JsNull
        /\ derived.result.hasLimit <=> derived.result.limit # JsNull
        /\ query # OffsetOnly(PrefixA, Num(0)) =>
               (derived.result.hasOffset <=> derived.result.offset # JsNull)

-----------------------------------------------------------------------------
(* C27: a shared parser object                                             *)

\* what the same call returns, and leaves in the fields, on a new parser object
FreshCall == IF op = "parseAgain" THEN parse(query) ELSE parseComplete(query)

\* C27: parse calls are independent of history.  parse and parseComplete
\* reset input and offset on entry, so the outcome of a call made on a parser
\* object after any sequence of earlier calls, failed ones included, is the
\* outcome of that call on a new parser object (the AST, null or the error),
\* and it leaves the same input and offset behind.
C27_HistoryIndependent ==
    op \in {"parseAgain", "parseCompleteAgain"} =>
        /\ outcome = OutcomeOf(FreshCall)
        /\ input = FreshCall.input
        /\ pos = FreshCall.pos

\* the third call made on one parser object has returned the AST of its text
C27_Witness ==
    /\ op = "parseAgain"
    /\ nparses = 3
    /\ query = PEq
    /\ outcome.kind = "ast"
    /\ outcome.ast = Pred(FieldA, OpEq, Num(1))
    /\ pos = 5

-----------------------------------------------------------------------------
(* C28: build() without stored sort clauses                                *)

\* C28: build() emits the words `order by` only when at least one sort
\* clause is stored.  After any sequence of calls that leaves no clause
\* stored, orderByMany with an empty list included, the built text contains
\* no `order by`, as astToQuery's for an AST with an empty orderBy list.
C28_OrderByOnlyWithClauses ==
    op = "builder" /\ call.name = "build" /\ Clauses(options) = <<>>
    => /\ ~Occurs(call.text.text, <<"o", "r", "d", "e", "r", " ", "b", "y">>)
       /\ call.text.text = astToQuery(CompleteQueryAST(Undefined, Arr(<<>>), options.limit, options.offset))

\* orderByMany([]) then limit(n) then build(): the text opens with `order by`
\* and lists nothing
C28_EmptyOrderByEmitted ==
    /\ op = "builder"
    /\ call.name = "build"
    /\ options.orderBy = Arr(<<>>)
    /\ options.limit # Undefined
    /\ call.text.text = OrderByText \o <<" ">> \o LimitText \o NumberToString(options.limit)
    /\ astToQuery(CompleteQueryAST(Undefined, Arr(<<>>), options.limit, Undefined))
           = LimitText \o NumberToString(options.limit)

\* without a sort call the built text has no `order by`
C28_NoSortCallNoOrderBy ==
    op = "builder" /\ call.name = "build" /\ options.orderBy = Undefined
    => ~Occurs(call.text.text, <<"o", "r", "d", "e", "r", " ", "b", "y">>)

-----------------------------------------------------------------------------
(* C29: field paths in the serialized text                                 *)

\* astToQuery has been applied to the AST the parser returned for `query`
SerializedParse == op = "astToQuery" /\ built = NotBuilt /\ outcome.kind = "ast"

\* C29: the serializer emits a predicate's field path verbatim.  For every
\* AST the parser returns, the text astToQuery writes for a predicate starts
\* with the predicate's field string followed by its operator, and every
\* field path of the where part stands in the text, dotted paths whose table
\* segment is the letter r included.
C29_FieldVerbatim ==
    SerializedParse /\ outcome.ast.where # Undefined =>
        /\ outcome.ast.where.type = "query" =>
              BeginsWith(regenerated.text,
                         outcome.ast.where.field \o <<" ">> \o outcome.ast.where.operator)
        /\ \A path \in FieldPaths(outcome.ast.where) : Occurs(regenerated.text, path \o <<" ">>)

\* `r.x = 1` was parsed to a predicate on r.x and serialized as `x = 1`
C29_TablePrefixDropped ==
    /\ SerializedParse
    /\ query = <<"r", ".", "x", " ", "=", " ", "1">>
    /\ outcome.ast.where = Pred(<<"r", ".", "x">>, OpEq, Num(1))
    /\ regenerated.text = <<"x", " ", "=", " ", "1">>

\* every other field path of the corpus is written as it is
C29_VerbatimUnlessR ==
    SerializedParse /\ outcome.ast.where # Undefined /\ query # PRDot =>
        \A path \in FieldPaths(outcome.ast.where) : Occurs(regenerated.text, path \o <<" ">>)

-----------------------------------------------------------------------------
(* C30: termination                                                        *)

\* the loop or lookahead entered has been left, or has raised an error
Finished == op = "loop" /\ loop.status \in {"done", "error"}

\* C30: every parse terminates.  parse and parseComplete finish with an AST,
\* null or an error; a pass of the loops of parseOr, parseAnd, parseOrderBy,
\* parseArray, parseFunction, parseString, parseNumber and skipWhitespace
\* that leaves the loop running has strictly increased the offset (any other
\* pass leaves the loop or raises an error), no pass moves the offset
\* backwards, so a loop entered at any offset of a text is left after at
\* most as many passes as characters remain plus one; and isFunction and
\* hasWhereClause leave the offset they started from.
C30_Termination ==
    /\ op = "loop" ~> Finished
    /\ [](ParserCalled => outcome.kind \in {"ast", "null", "error"})
    /\ [][op' = "loop" /\ op = "loop" /\ loop.name \in Loops =>
             /\ loop'.status = "running" => pos' > pos
             /\ pos' >= pos
             /\ loop'.status \in {"running", "done", "error"}]_vars
    /\ [](op = "loop" /\ loop.name \in Loops =>
             /\ loop.status = "running" => loop.passes <= pos - loop.start
             /\ loop.passes <= Len(input) - loop.start + 2)
    /\ [](op = "loop" /\ loop.name \in Lookaheads /\ loop.status = "done" => pos = loop.start)

\* the loop of parseArray, entered after the parenthesis of `("a", 2,N())`,
\* has made three passes with a value each and left on the fourth
C30_Witness ==
    /\ op = "loop"
    /\ loop.name = "parseArray"
    /\ loop.status = "done"
    /\ loop.start = 1
    /\ loop.passes = 4
    /\ input = <<"(", "\"", "a", "\"", ",", " ", "2", ",", "N", "(", ")", ")">>
    /\ pos = 11

\* isFunction() called at `TO_D  ()` scanned the name and the blanks and
\* left the offset where it was
C30_WitnessLookahead ==
    /\ op = "loop"
    /\ loop.name = "isFunction"
    /\ loop.status = "done"
    /\ loop.start = 0
    /\ input = <<"T", "O", "_", "D", " ", " ", "(", ")", " ", "X", "Y", "(">>
    /\ isFunction(input, 0)
    /\ skipWhitespace(input, SkipFuncChars(input, 0)) = 6
    /\ pos = 0

====
